---- MODULE Spec2Model ----
(***************************************************************************)
(* Model of the tweet refinement agent (jhn07/ai-tweet-reflection-agent).  *)
(*                                                                         *)
(* The LangGraph run of main.py: START -> tweet_generation ->              *)
(* tweet_critique -> router -> (tweet_rewrite -> tweet_critique | END).    *)
(* Every node is wrapped by with_retry_and_timeout; one attempt of a node  *)
(* is one step of the model.  Scores are hundredths (0.78 is 78).          *)
(* A run's AgentState is the function `state` from keys to values, as the  *)
(* Python dict is: a key that was never written is not in its domain.      *)
(*                                                                         *)
(* The LLMCache of agents/cache.py is modelled next to it: SpecCache has   *)
(* one caller, a call being one step, and SpecThreads has two threads that *)
(* take the cache lock statement by statement.                             *)
(***************************************************************************)
EXTENDS Integers, Sequences, FiniteSets, TLC

VARIABLES
    state,              \* AgentState of the run (dict: key -> value)
    node,               \* node the graph runs next, "END", or "RAISED"
    attempt,            \* loop variable of with_retry_and_timeout's wrapper
    fallback_enabled,   \* TweetAgentConfig.fallback_enabled
    max_retries,        \* TweetAgentConfig.max_retries
    executed,           \* history: node invocations finished so far
    reported            \* history: what the last critique step obtained

vars == <<state, node, attempt, fallback_enabled, max_retries, executed, reported>>

\* The LLMCache of agents/cache.py, its directory, and the threads using it
VARIABLES
    cache,              \* LLMCache._cache (dict: key -> CacheEntry)
    access_order,       \* LLMCache._access_order (list of keys)
    hits,               \* LLMCache.hits
    misses,             \* LLMCache.misses
    evictions,          \* LLMCache.evictions
    max_size,           \* LLMCache.max_size
    ttl_seconds,        \* LLMCache.ttl_seconds
    enable_persistence, \* LLMCache.enable_persistence
    now,                \* time.time()
    disk,               \* cache_dir: file stem -> the record in {stem}.json
    pending,            \* daemon threads started by put that have not written
    accessed,           \* history: keys by last put / hit on this instance
    last_call,          \* history: the last call that changed the cache object,
                        \* or "save_failed" after a write that failed
    lock,               \* owner of LLMCache._lock
    pc                  \* per thread: the call it is in and where

cvars == <<cache, access_order, hits, misses, evictions, max_size, ttl_seconds,
           enable_persistence, now, disk, pending, accessed, last_call>>

tvars == <<lock, pc>>

\* One call of the wrapper that with_retry_and_timeout puts around a node, and
\* the OpenAIProvider with its response cache
VARIABLES
    exponential_backoff,    \* TweetAgentConfig.exponential_backoff
    retry_delay,            \* TweetAgentConfig.retry_delay
    slept,                  \* history: the delays the wrapper has slept, in order
    calls,                  \* history: how each execution of func ended
    wrapper_result,         \* what the wrapper returned or raised
    enable_cache,           \* OpenAIProvider.enable_cache
    client,                 \* OpenAIProvider._client: "none" or "ready"
    response                \* what the last provider.invoke returned or raised

rvars == <<exponential_backoff, retry_delay, slept, calls, wrapper_result>>

\* The ModelManager registry of agents/llm_provider.py
VARIABLES
    providers,              \* ModelManager._providers (dict: role -> provider)
    fallback_providers,     \* ModelManager._fallback_providers (dict: role -> list)
    manager_result,         \* the manager call in progress, or how the last ended
    manager_calls           \* history: manager calls made so far

mvars == <<providers, fallback_providers, manager_result, manager_calls>>

pvars == <<enable_cache, client, response, mvars>>

----------------------------------------------------------------------------
(* Bounds of the model *)

MaxCap == 2         \* initial max_iters is drawn from 0..MaxCap, or left out
MaxRetries == 1     \* config.max_retries is drawn from 0..MaxRetries
MaxSteps == 9       \* node invocations explored per run

(* Program constants *)

MAX_ITERS_DEFAULT == 3
QUALITY_SCORE_THRESHOLD == 78
FALLBACK_SCORE == 50
NO_BEST_SCORE == -100

----------------------------------------------------------------------------
(* Texts.  A model reply is either already clean or carries characters     *)
(* that the sanitizer deletes (HTML tags, emoji, surrounding blanks).      *)

LLMTexts == {"tweet one", " <b>tweet two</b> "}

fallback_message == "Sorry, an error occurred"

\* InputSanitizer._basic_cleanup followed by _remove_html, as
\* validate_state_input applies them to every message content
CleanContent(c) ==
    IF c \in {" <b>tweet two</b> ", "<b>tweet two</b>"} THEN "tweet two" ELSE c

\* str.strip()
Strip(c) ==
    IF c = " <b>tweet two</b> " THEN "<b>tweet two</b>" ELSE c

HumanMessage(c)  == [type |-> "human",  content |-> c]
AIMessage(c)     == [type |-> "ai",     content |-> c]
SystemMessage(c) == [type |-> "system", content |-> c]

----------------------------------------------------------------------------
(* Dict helpers *)

Has(st, k) == k \in DOMAIN st

Get(st, k, default) == IF k \in DOMAIN st THEN st[k] ELSE default

\* LangGraph state update for AgentState: `messages` has the add_messages
\* reducer (append), every other key is overwritten
Merge(st, update) ==
    [k \in (DOMAIN st) \cup (DOMAIN update) |->
        IF k \in DOMAIN update
        THEN IF k = "messages" /\ k \in DOMAIN st
             THEN st[k] \o update[k]
             ELSE update[k]
        ELSE st[k]]

----------------------------------------------------------------------------
(* Pure functions of the source *)

\* utils.last_ai_text: content of the last AI message, stripped, or ""
RECURSIVE last_ai_text(_)
last_ai_text(msgs) ==
    IF msgs = <<>> THEN ""
    ELSE IF msgs[Len(msgs)].type = "ai" THEN Strip(msgs[Len(msgs)].content)
    ELSE last_ai_text(SubSeq(msgs, 1, Len(msgs) - 1))

\* InputSanitizer.sanitize_language
sanitize_language(l) == IF l \in {"ru", "en"} THEN l ELSE "ru"

\* models.validate_agent_state
validate_agent_state(st) ==
    /\ Has(st, "messages")
    /\ Has(st, "needs_revision") /\ st["needs_revision"] \in BOOLEAN
    /\ Has(st, "iter") /\ st["iter"] \in Int /\ st["iter"] >= 0
    /\ Has(st, "score") => (st["score"] >= 0 /\ st["score"] <= 100)
    /\ Has(st, "language") => st["language"] \in {"ru", "en"}

\* InputSanitizer.validate_state_input: a shallow copy of the state with the
\* language and every message content sanitized
validate_and_sanitize_state(st) ==
    [k \in DOMAIN st |->
        IF k = "language" THEN sanitize_language(st[k])
        ELSE IF k = "messages"
             THEN [i \in 1..Len(st[k]) |->
                     [type |-> st[k][i].type, content |-> CleanContent(st[k][i].content)]]
             ELSE st[k]]

\* main.router (mutant: the cap test off by one)
router_early(st) ==
    IF st["needs_revision"] /\ st["iter"] + 1 < Get(st, "max_iters", MAX_ITERS_DEFAULT)
    THEN "rewrite" ELSE "stop"

\* main.router (mutant: the cap test admits iter = max_iters)
router_late(st) ==
    IF st["needs_revision"] /\ st["iter"] <= Get(st, "max_iters", MAX_ITERS_DEFAULT)
    THEN "rewrite" ELSE "stop"

\* main.router
router(st) ==
    IF st["needs_revision"] /\ st["iter"] < Get(st, "max_iters", MAX_ITERS_DEFAULT)
    THEN "rewrite" ELSE "stop"

\* error_handler.create_fallback_response
create_fallback_response(func_name) ==
    IF func_name \in {"tweet_generation", "tweet_rewrite"}
    THEN [messages |-> <<AIMessage(fallback_message)>>]
    ELSE [messages |-> <<SystemMessage("critique unavailable")>>,
          needs_revision |-> FALSE,
          score |-> FALLBACK_SCORE,
          critique_items |-> <<"Technical error">>]

\* Return value of tweet_generation when the model replied `text`
generation_result(st, text) ==
    [messages |-> <<AIMessage(text)>>,
     iter     |-> st["iter"] + 1]

\* Return value of tweet_rewrite (mutant: the counter is not advanced)
rewrite_result_noinc(st, text) ==
    [messages |-> <<AIMessage(Strip(text))>>,
     iter     |-> st["iter"]]

\* Return value of tweet_rewrite when the model replied `text` (the cut to
\* 280 characters is left out: the texts of the model are shorter)
rewrite_result(st, text) ==
    [messages |-> <<AIMessage(Strip(text))>>,
     iter     |-> st["iter"] + 1]

\* A parsed critique: CritiqueSchema(needs_revision, issues, tips, score)
CritiqueSchema ==
    { [needs_revision |-> FALSE, score |-> 50],
      [needs_revision |-> FALSE, score |-> 78],
      [needs_revision |-> FALSE, score |-> 90],
      [needs_revision |-> TRUE,  score |-> 90] }

\* tweet_critique: "needs revision" rule (mutant: the flag alone decides)
needs_revision_flag_only(result) == result.needs_revision

\* tweet_critique: "needs revision" rule
needs_revision_rule(result) ==
    result.needs_revision \/ (result.score < QUALITY_SCORE_THRESHOLD)

\* tweet_critique: best candidate update (mutant: ties replace)
best_update_ties(st, tweet, result) ==
    IF result.score >= Get(st, "best_score", NO_BEST_SCORE)
    THEN [best_tweet |-> tweet, best_score |-> result.score]
    ELSE [best_tweet |-> st["best_tweet"], best_score |-> st["best_score"]]

\* tweet_critique: best candidate update (mutant: the latest always wins)
best_update_latest(st, tweet, result) ==
    [best_tweet |-> tweet, best_score |-> result.score]

\* tweet_critique: best candidate update (mutant: the text is always the
\* latest, the score the highest)
best_update_score_only(st, tweet, result) ==
    [best_tweet |-> tweet,
     best_score |-> IF result.score > Get(st, "best_score", NO_BEST_SCORE)
                    THEN result.score ELSE st["best_score"]]

\* tweet_critique: best candidate update
best_update(st, tweet, result) ==
    IF result.score > Get(st, "best_score", NO_BEST_SCORE)
    THEN [best_tweet |-> tweet, best_score |-> result.score]
    ELSE [best_tweet |-> st["best_tweet"], best_score |-> st["best_score"]]

\* Return value of tweet_critique when the reply parsed into `result`
critique_result(st, result) ==
    LET clean == validate_and_sanitize_state(st)
        tweet == last_ai_text(clean["messages"])
        best  == best_update(clean, tweet, result)
    IN  [messages       |-> <<SystemMessage("critique")>>,
         needs_revision |-> needs_revision_rule(result),
         critique_items |-> <<"issues or tips">>,
         score          |-> result.score,
         candidates     |-> Append(Get(clean, "candidates", <<>>), <<tweet, result.score>>),
         best_tweet     |-> best.best_tweet,
         best_score     |-> best.best_score]

\* (mutant: the neutral result flags a revision, as the rule would for 0.5)
critique_unavailable_by_rule ==
    [messages       |-> <<SystemMessage("critique unavailable")>>,
     needs_revision |-> FALLBACK_SCORE < QUALITY_SCORE_THRESHOLD,
     score          |-> FALLBACK_SCORE,
     critique_items |-> <<"technical error">>]

\* Return value of tweet_critique when the provider call or the parsing of
\* its reply raised: the except branch inside the node
critique_unavailable ==
    [messages       |-> <<SystemMessage("critique unavailable")>>,
     needs_revision |-> FALSE,
     score          |-> FALLBACK_SCORE,
     critique_items |-> <<"technical error">>]

----------------------------------------------------------------------------
(* The graph *)

Nodes == {"tweet_generation", "tweet_critique", "tweet_rewrite"}

\* Edges of graph_builder: the node that follows `name` in state `st`
NextNode(name, st) ==
    IF name = "tweet_critique"
    THEN IF router(st) = "rewrite" THEN "tweet_rewrite" ELSE "END"
    ELSE "tweet_critique"

InitialStates ==
    { [messages |-> <<HumanMessage("Generate a tweet about topic")>>,
       needs_revision |-> TRUE,
       iter |-> 0,
       language |-> l,
       max_iters |-> n] : l \in {"ru", "fr"}, n \in 0..MaxCap }
    \cup
    { [messages |-> <<HumanMessage("Generate a tweet about topic")>>,
       needs_revision |-> TRUE,
       iter |-> 0,
       language |-> "ru"] }

NoCritique == [kind |-> "none", needs_revision |-> FALSE, score |-> 0]

\* a dict with no key
EmptyDict == [k \in {} |-> 0]

\* the threads that call the cache, and a thread that is in no call
Threads == {"t1", "t2"}
Idle == [op |-> "idle", at |-> "idle", key |-> "-", ts |-> 0, ks |-> {}, n |-> 0]

\* the wrapper has not been called, or is still in its loop
NoResult == [kind |-> "running"]

\* no provider call has been made
NoResponse == [kind |-> "none"]

\* the wrapper is not followed attempt by attempt
NoWrapper ==
    /\ exponential_backoff = FALSE
    /\ retry_delay = 0
    /\ slept = <<>>
    /\ calls = <<>>
    /\ wrapper_result = NoResult

\* no manager call has been made
NoCall == [kind |-> "none"]

\* no registry is in use
NoManager ==
    /\ providers = EmptyDict
    /\ fallback_providers = EmptyDict
    /\ manager_result = NoCall
    /\ manager_calls = 0

\* no provider is in use
NoProvider ==
    /\ enable_cache = FALSE
    /\ client = "none"
    /\ response = NoResponse
    /\ NoManager

\* the run of the graph is studied without a cache object
NoCache ==
    /\ cache = EmptyDict
    /\ access_order = <<>>
    /\ hits = 0
    /\ misses = 0
    /\ evictions = 0
    /\ max_size = 0
    /\ ttl_seconds = 0
    /\ enable_persistence = FALSE
    /\ now = 0
    /\ disk = EmptyDict
    /\ pending = {}
    /\ accessed = <<>>
    /\ last_call = "__init__"
    /\ lock = "free"
    /\ pc = [t \in Threads |-> Idle]

Init ==
    /\ state \in InitialStates
    /\ node = "tweet_generation"
    /\ attempt = 0
    /\ fallback_enabled \in BOOLEAN
    /\ max_retries \in 0..MaxRetries
    /\ executed = <<>>
    /\ reported = NoCritique
    /\ NoCache
    /\ NoWrapper
    /\ NoProvider

\* wrapper: func returned `update`; the graph merges it and moves on
Returned(name, outcome, update) ==
    /\ state' = Merge(state, update)
    /\ node' = NextNode(name, state')
    /\ attempt' = 0
    /\ executed' = Append(executed, [node |-> name, outcome |-> outcome])
    /\ UNCHANGED <<fallback_enabled, max_retries, cvars, tvars, rvars, pvars>>

\* wrapper (mutant: with fallback disabled the failed step is passed over
\* and the graph moves on)
Raised_goes_on(name) ==
    IF attempt < max_retries
    THEN /\ attempt' = attempt + 1
         /\ UNCHANGED <<state, node, fallback_enabled, max_retries, executed, reported,
                        cvars, tvars, rvars, pvars>>
    ELSE /\ node' = NextNode(name, state)
         /\ attempt' = 0
         /\ executed' = Append(executed, [node |-> name, outcome |-> "raised"])
         /\ UNCHANGED <<state, fallback_enabled, max_retries, reported,
                        cvars, tvars, rvars, pvars>>

\* wrapper: func raised on this attempt
Raised(name) ==
    IF attempt < max_retries
    THEN /\ attempt' = attempt + 1
         /\ UNCHANGED <<state, node, fallback_enabled, max_retries, executed, reported,
                        cvars, tvars, rvars, pvars>>
    ELSE IF fallback_enabled
    THEN /\ Returned(name, "fallback", create_fallback_response(name))
         /\ reported' = IF name = "tweet_critique"
                        THEN [kind |-> "fallback", needs_revision |-> FALSE,
                              score |-> FALLBACK_SCORE]
                        ELSE reported
    ELSE /\ node' = "RAISED"
         /\ executed' = Append(executed, [node |-> name, outcome |-> "raised"])
         /\ UNCHANGED <<state, attempt, fallback_enabled, max_retries, reported,
                        cvars, tvars, rvars, pvars>>

Running(name) == node = name /\ Len(executed) < MaxSteps

\* tweet_generation: an attempt that returns
GenerationReturns ==
    /\ Running("tweet_generation")
    /\ validate_agent_state(state)
    /\ \E text \in LLMTexts :
          Returned("tweet_generation", "ok", generation_result(state, text))
    /\ UNCHANGED reported

\* tweet_generation: an attempt that raises (invalid state, or the provider)
GenerationRaises ==
    /\ Running("tweet_generation")
    /\ Raised("tweet_generation")

\* tweet_critique: an attempt whose reply parses
CritiqueReturns ==
    /\ Running("tweet_critique")
    /\ validate_agent_state(state)
    /\ \E result \in CritiqueSchema :
          /\ Returned("tweet_critique", "ok", critique_result(state, result))
          /\ reported' = [kind |-> "parsed",
                          needs_revision |-> result.needs_revision,
                          score |-> result.score]

\* tweet_critique: the provider or the parsing raised inside the node
CritiqueUnavailable ==
    /\ Running("tweet_critique")
    /\ validate_agent_state(state)
    /\ Returned("tweet_critique", "fallback", critique_unavailable)
    /\ reported' = [kind |-> "fallback", needs_revision |-> FALSE,
                    score |-> FALLBACK_SCORE]

\* tweet_critique: an attempt that raises (invalid state)
CritiqueRaises ==
    /\ Running("tweet_critique")
    /\ ~validate_agent_state(state)
    /\ Raised("tweet_critique")

\* tweet_rewrite: an attempt that returns
RewriteReturns ==
    /\ Running("tweet_rewrite")
    /\ validate_agent_state(state)
    /\ \E text \in LLMTexts :
          Returned("tweet_rewrite", "ok", rewrite_result(state, text))
    /\ UNCHANGED reported

\* tweet_rewrite: an attempt that raises (invalid state, or the provider)
RewriteRaises ==
    /\ Running("tweet_rewrite")
    /\ Raised("tweet_rewrite")

Next ==
    \/ GenerationReturns
    \/ GenerationRaises
    \/ CritiqueReturns
    \/ CritiqueUnavailable
    \/ CritiqueRaises
    \/ RewriteReturns
    \/ RewriteRaises

Spec == Init /\ [][Next]_vars

----------------------------------------------------------------------------
(* What main.py reports of a finished run *)

Done == node = "END"

\* router: max_iters = state.get("max_iters", MAX_ITERS_DEFAULT)
Cap == Get(state, "max_iters", MAX_ITERS_DEFAULT)

\* main: final_ai, the content of the last AI message of the result
final_ai ==
    LET ai == SelectSeq(state["messages"], LAMBDA m : m.type = "ai")
    IN  IF ai = <<>> THEN "" ELSE ai[Len(ai)].content

\* main: accepted (mutant: derived from the counter instead of the flag)
accepted_by_counter == state["iter"] < Cap

\* main: accepted = not result.get("needs_revision", False)
accepted == ~Get(state, "needs_revision", FALSE)

\* main: final_tweet (mutant: always the last AI message)
final_tweet_last == final_ai

\* main: final_tweet = final_ai if accepted else result.get("best_tweet", final_ai)
final_tweet == IF accepted THEN final_ai ELSE Get(state, "best_tweet", final_ai)

\* main: stop_reason
stop_reason == IF accepted THEN "accepted" ELSE "max_iters"

----------------------------------------------------------------------------
(* Vocabulary of the properties *)

Candidates == Get(state, "candidates", <<>>)

Scores(c) == { c[i][2] : i \in DOMAIN c }

MaxScore(c) == CHOOSE s \in Scores(c) : \A t \in Scores(c) : t <= s

\* number of finished invocations of node `name`
Invocations(name) ==
    Cardinality({ i \in DOMAIN executed : executed[i].node = name })

\* number of invocations of node `name` that returned the node's own result
Successes(name) ==
    Cardinality({ i \in DOMAIN executed :
                    executed[i].node = name /\ executed[i].outcome = "ok" })

NodeNames == [i \in DOMAIN executed |-> executed[i].node]

AllSucceeded == \A i \in DOMAIN executed : executed[i].outcome = "ok"

LastStep == executed[Len(executed)]

\* the state right after a critique step (until the next node finishes)
AfterCritique == executed # <<>> /\ LastStep.node = "tweet_critique"

\* every critique step of the run returned score 0.5
CritiqueAlwaysHalf ==
    /\ Len(Candidates) = Invocations("tweet_critique")
    /\ \A i \in DOMAIN Candidates : Candidates[i][2] = 50

\* the text a critique step scores for the message content c
ScoredText(c) == Strip(CleanContent(c))

\* the returned text is a recorded candidate that no candidate outscores
ReturnedIsBest ==
    \E i \in DOMAIN Candidates :
        /\ Candidates[i][1] = ScoredText(final_tweet)
        /\ \A j \in DOMAIN Candidates : Candidates[j][2] <= Candidates[i][2]

----------------------------------------------------------------------------
(* C1 .. C10: the refinement loop *)

\* C1 (as stated): for a cap N >= 0 and iter = 0 at the start, a run is DONE
\* after at most 2N + 1 node invocations, so it never performs more.
C1_AtMost2NPlus1 == Len(executed) <= 2 * Cap + 1

\* C2 (as stated): once the generation step has run, iter <= max_iters, for
\* every cap N >= 0.
C2_IterWithinCapAnyN == executed # <<>> => state["iter"] <= Cap

\* C2 (amended): for every cap N >= 1, iter <= max_iters in every state of
\* the run.
C2_IterWithinCap == Cap >= 1 => state["iter"] <= Cap

C2_Witness ==
    /\ Done /\ Cap >= 1 /\ state["iter"] = Cap
    /\ state["needs_revision"] /\ Invocations("tweet_rewrite") >= 1

\* the transition the claim C3 states for the critique result `reported`
C3_Transition ==
    IF (reported.needs_revision \/ reported.score < QUALITY_SCORE_THRESHOLD)
       /\ state["iter"] < Cap
    THEN node = "tweet_rewrite"
    ELSE node = "END"

\* C3 (as stated): after every critique step the run goes to REWRITING iff
\* (needs_revision reported or score < 0.78) and iter < max_iters, else DONE.
C3_RouteAfterEveryCritique == AfterCritique => C3_Transition

\* C3 (amended): after every critique step that parsed a critique the run
\* goes to REWRITING iff (needs_revision reported or score < 0.78) and
\* iter < max_iters, else to DONE; a critique step that ends in the neutral
\* fallback (score 0.5) goes to DONE; a first critique with needs_revision
\* false and score 0.9 ends the run after one generation and one critique.
C3_RouteAfterParsedCritique ==
    /\ (AfterCritique /\ LastStep.outcome = "ok") => C3_Transition
    /\ (AfterCritique /\ LastStep.outcome = "fallback") => node = "END"
    /\ (/\ AfterCritique /\ Invocations("tweet_critique") = 1
        /\ reported = [kind |-> "parsed", needs_revision |-> FALSE, score |-> 90])
       => (Done /\ NodeNames = <<"tweet_generation", "tweet_critique">>)

C3_Witness ==
    /\ AfterCritique /\ LastStep.outcome = "ok"
    /\ reported = [kind |-> "parsed", needs_revision |-> FALSE, score |-> 50]
    /\ node = "tweet_rewrite"

\* C4 (as stated): with a critique that always returns 0.5 and cap N >= 1 the
\* run performs N rewrites and N + 1 critiques before it stops as max_iters
\* with best_score 0.5 (3 rewrites and 4 critiques for max_iters = 3).
C4_NRewrites ==
    (Done /\ Cap >= 1 /\ CritiqueAlwaysHalf) =>
        /\ Invocations("tweet_rewrite") = Cap
        /\ Invocations("tweet_critique") = Cap + 1
        /\ stop_reason = "max_iters"
        /\ state["best_score"] = 50

\* C4 (amended): with a critique that always returns 0.5 and cap N >= 1, a
\* run that is DONE stopped as max_iters with best_score 0.5 after N - 1
\* successful rewrites when generation succeeded (N when generation ended in
\* its fallback), every rewrite being followed by one critique; with
\* max_iters = 3 and every step successful the steps are generate, critique,
\* rewrite, critique, rewrite, critique.
C4_NMinus1Rewrites ==
    (Done /\ Cap >= 1 /\ CritiqueAlwaysHalf) =>
        /\ Successes("tweet_rewrite") = Cap - Successes("tweet_generation")
        /\ Invocations("tweet_critique") = Invocations("tweet_rewrite") + 1
        /\ stop_reason = "max_iters"
        /\ state["best_score"] = 50
        /\ (Cap = 3 /\ AllSucceeded) =>
              NodeNames = <<"tweet_generation", "tweet_critique",
                            "tweet_rewrite", "tweet_critique",
                            "tweet_rewrite", "tweet_critique">>

C4_Witness ==
    /\ Done /\ Cap = 3 /\ CritiqueAlwaysHalf /\ AllSucceeded
    /\ Invocations("tweet_rewrite") = 2 /\ Invocations("tweet_critique") = 3

\* best_score is recorded exactly when a candidate is, and is their maximum
BestScoreIsMax ==
    IF Candidates = <<>>
    THEN ~Has(state, "best_score")
    ELSE Has(state, "best_score") /\ state["best_score"] = MaxScore(Candidates)

\* C5: best_score never decreases from one step to the next, and in every
\* state it equals the maximum score among the pairs recorded in candidates.
C5_BestScoreMonotoneMax ==
    /\ []BestScoreIsMax
    /\ [][Get(state, "best_score", NO_BEST_SCORE)' >= Get(state, "best_score", NO_BEST_SCORE)]_vars

C5_Witness ==
    /\ Len(Candidates) >= 2
    /\ Candidates[2][2] < Candidates[1][2]
    /\ state["best_score"] = Candidates[1][2]

\* index of the earliest candidate with the maximal score
EarliestBest ==
    CHOOSE i \in DOMAIN Candidates :
        /\ Candidates[i][2] = MaxScore(Candidates)
        /\ \A j \in DOMAIN Candidates :
              Candidates[j][2] = MaxScore(Candidates) => i <= j

\* a critique step that scored exactly the current best_score
TieStep ==
    /\ Has(state, "best_score")
    /\ Len(Candidates') = Len(Candidates) + 1
    /\ Candidates'[Len(Candidates')][2] = state["best_score"]

\* C6: a critique whose score equals best_score leaves best_tweet and
\* best_score unchanged, so best_tweet is the earliest candidate among those
\* with the maximal score.
C6_TiesKeepEarliest ==
    /\ [](Candidates # <<>> => state["best_tweet"] = Candidates[EarliestBest][1])
    /\ [][TieStep => /\ state'["best_tweet"] = state["best_tweet"]
                     /\ state'["best_score"] = state["best_score"]]_vars

C6_Witness ==
    /\ Len(Candidates) >= 2
    /\ Candidates[1][2] = Candidates[2][2]
    /\ Candidates[1][1] # Candidates[2][1]
    /\ state["best_tweet"] = Candidates[1][1]

\* C7 (as stated): every critique step, a fallback one included, appends one
\* pair, so the length of candidates is the number of critique steps.
C7_OnePairPerCritique == Len(Candidates) = Invocations("tweet_critique")

\* what the final critique step left in needs_revision
FinalCritiqueNeedsRevision ==
    reported.kind = "parsed" /\ needs_revision_rule(reported)

\* C8: at DONE the stop reason is accepted exactly when the final critique
\* left needs_revision false, max_iters otherwise; a run that stops with
\* needs_revision true has iter >= max_iters.
C8_StopReason ==
    Done =>
        /\ stop_reason \in {"accepted", "max_iters"}
        /\ stop_reason = "accepted" <=> ~FinalCritiqueNeedsRevision
        /\ stop_reason = "max_iters" => state["iter"] >= Cap

C8_Witness ==
    /\ Done /\ stop_reason = "accepted" /\ reported.kind = "parsed"
    /\ state["iter"] >= Cap /\ Invocations("tweet_rewrite") >= 1

\* C9 (as stated): the text a run returns has a score at least as high as
\* every candidate recorded, whether it stops as accepted or as max_iters.
C9_ReturnsBestAlways == (Done /\ Candidates # <<>>) => ReturnedIsBest

\* C9 (amended): a run that stops as max_iters returns best_tweet, a recorded
\* candidate whose score is at least as high as every candidate recorded; a
\* run that stops as accepted returns the last AI message, which an earlier
\* candidate may outscore.
C9_ReturnsBestAtMaxIters ==
    (Done /\ stop_reason = "max_iters") =>
        /\ Candidates # <<>>
        /\ final_tweet = state["best_tweet"]
        /\ ReturnedIsBest

C9_Witness ==
    /\ Done /\ stop_reason = "max_iters" /\ Len(Candidates) >= 2
    /\ Candidates[Len(Candidates)][2] < state["best_score"]
    /\ Candidates[Len(Candidates)][1] # final_tweet

\* effect on iter of the node invocation that finishes in this step
IterEffect ==
    executed' # executed =>
        LET step == executed'[Len(executed')]
        IN  /\ (step.node \in {"tweet_generation", "tweet_rewrite"} /\ step.outcome = "ok")
               => state'["iter"] = state["iter"] + 1
            /\ step.node = "tweet_critique" => state'["iter"] = state["iter"]

\* C10: a successful generation step and a successful rewrite step each add
\* exactly 1 to iter, and a critique step leaves iter unchanged.
C10_IterEffect == [][IterEffect]_vars

C10_Witness ==
    /\ state["iter"] = 2
    /\ Successes("tweet_generation") = 1
    /\ Successes("tweet_rewrite") = 1
    /\ Invocations("tweet_critique") = 2

----------------------------------------------------------------------------
(* agents/cache.py: the LLMCache.  Time is counted in whole seconds; the   *)
(* clock of the model starts at 0, an arbitrary origin.  A CacheEntry      *)
(* keeps the fields the cache logic reads: content, timestamp and          *)
(* access_count (tokens_used, cost and model_name are payload).            *)

(* Bounds of the cache model *)

MaxSize == 2        \* max_size is drawn from 0..MaxSize
Ttl == 1            \* ttl_seconds of the cache explored
MaxTime == 2        \* the clock runs from 0 to MaxTime
MaxGets == 1        \* get calls explored per cache instance
MaxEvictions == 1   \* evictions explored per cache instance
MaxCalls == 2       \* calls the concurrent threads make in all

Keys == {"A", "B", "C"}
DiskKeys == {"A", "B"}      \* the keys used when the cache persists
Contents == {"reply"}

allvars == <<vars, cvars, tvars, rvars, pvars>>

\* CacheEntry(content=..., ...) whose __post_init__ stamps it with the time
CacheEntry(content, t) == [content |-> content, timestamp |-> t, access_count |-> 0]

is_expired_at_ttl(entry, ttl, t) == (t - entry.timestamp) >= ttl

is_expired(entry, ttl, t) == (t - entry.timestamp) > ttl

touch_keep(entry) == entry

touch(entry) == [entry EXCEPT !.access_count = @ + 1]

\* del d[k]
dict_del(d, k) == [x \in DOMAIN d \ {k} |-> d[x]]

\* d[k] = v
dict_set(d, k, v) == [x \in DOMAIN d \cup {k} |-> IF x = k THEN v ELSE d[x]]

\* if k in l: l.remove(k)
list_remove(l, k) ==
    IF \E i \in 1..Len(l) : l[i] = k
    THEN LET i == CHOOSE i \in 1..Len(l) :
                     l[i] = k /\ \A j \in 1..(i - 1) : l[j] # k
         IN  SubSeq(l, 1, i - 1) \o SubSeq(l, i + 1, Len(l))
    ELSE l

\* if k in l: l.remove(k); l.append(k)
move_to_end(l, k) == Append(list_remove(l, k), k)

\* the fields of the cache object the lock protects
Mem ==
    [cache |-> cache, access_order |-> access_order,
     hits |-> hits, misses |-> misses, evictions |-> evictions]

SetMem(m) ==
    /\ cache' = m.cache
    /\ access_order' = m.access_order
    /\ hits' = m.hits
    /\ misses' = m.misses
    /\ evictions' = m.evictions

evict_mru(m) ==
    IF m.access_order = <<>>
    THEN m
    ELSE LET mru_key == m.access_order[Len(m.access_order)]
         IN  [m EXCEPT !.access_order = SubSeq(@, 1, Len(@) - 1),
                       !.cache = IF mru_key \in DOMAIN m.cache
                                 THEN dict_del(@, mru_key) ELSE @,
                       !.evictions = IF mru_key \in DOMAIN m.cache
                                     THEN @ + 1 ELSE @]

evict_lru(m) ==
    IF m.access_order = <<>>
    THEN m
    ELSE LET lru_key == Head(m.access_order)
         IN  [m EXCEPT !.access_order = Tail(@),
                       !.cache = IF lru_key \in DOMAIN m.cache
                                 THEN dict_del(@, lru_key) ELSE @,
                       !.evictions = IF lru_key \in DOMAIN m.cache
                                     THEN @ + 1 ELSE @]

put_evict_always(m, key, size) ==
    IF Cardinality(DOMAIN m.cache) >= size THEN evict_lru(m) ELSE m

\* put, first statement under the lock
put_evict(m, key, size) ==
    IF Cardinality(DOMAIN m.cache) >= size /\ key \notin DOMAIN m.cache
    THEN evict_lru(m)
    ELSE m

\* put, second statement under the lock
put_store(m, key, entry) == [m EXCEPT !.cache = dict_set(@, key, entry)]

\* put, the update of the access order
put_order(m, key) == [m EXCEPT !.access_order = move_to_end(@, key)]

\* put, everything it does to the cache object under the lock
put_locked(m, key, entry, size) ==
    put_order(put_store(put_evict(m, key, size), key, entry), key)

\* get: which branch the lookup takes
get_branch(m, key, ttl, t) ==
    IF key \notin DOMAIN m.cache THEN "absent"
    ELSE IF is_expired(m.cache[key], ttl, t) THEN "expired"
    ELSE "hit"

get_begin_keep_order(m, key, branch) ==
    CASE branch = "absent"  -> [m EXCEPT !.misses = @ + 1]
      [] branch = "expired" -> [m EXCEPT !.cache = dict_del(@, key)]
      [] branch = "hit"     -> m

\* get, up to and including the first change of the branch taken
get_begin(m, key, branch) ==
    CASE branch = "absent"  -> [m EXCEPT !.misses = @ + 1]
      [] branch = "expired" -> [m EXCEPT !.cache = dict_del(@, key)]
      [] branch = "hit"     -> [m EXCEPT !.access_order = move_to_end(@, key)]

\* get, the rest of the branch taken
get_end(m, key, branch) ==
    CASE branch = "absent"  -> m
      [] branch = "expired" -> [m EXCEPT !.access_order = list_remove(@, key),
                                         !.misses = @ + 1]
      [] branch = "hit"     -> [m EXCEPT !.hits = @ + 1,
                                         !.cache = dict_set(@, key, touch(m.cache[key]))]

\* get, everything it does to the cache object under the lock
get_locked(m, key, ttl, t) ==
    LET branch == get_branch(m, key, ttl, t)
    IN  get_end(get_begin(m, key, branch), key, branch)

\* Python's None, where an entry is expected
None == [none |-> TRUE]

\* what get returns: the entry, or None
get_returns(m, key, ttl, t) ==
    IF get_branch(m, key, ttl, t) = "hit" THEN touch(m.cache[key]) ELSE None

expired_keys_any_age(m, ttl, t) == {k \in DOMAIN m.cache : t - m.cache[k].timestamp > 0}

\* cleanup_expired: expired_keys
expired_keys(m, ttl, t) == {k \in DOMAIN m.cache : is_expired(m.cache[k], ttl, t)}

\* cleanup_expired: the deletions from the store
cleanup_store(m, ks) == [m EXCEPT !.cache = [x \in DOMAIN @ \ ks |-> @[x]]]

\* cleanup_expired: the removals from the access order
cleanup_order(m, ks) ==
    [m EXCEPT !.access_order = SelectSeq(@, LAMBDA k : k \notin ks)]

\* cleanup_expired, everything it does under the lock
cleanup_locked(m, ttl, t) ==
    LET ks == expired_keys(m, ttl, t)
    IN  cleanup_order(cleanup_store(m, ks), ks)

clear_locked_reset(m) ==
    [m EXCEPT !.cache = EmptyDict, !.access_order = <<>>,
              !.hits = 0, !.misses = 0, !.evictions = 0]

\* clear, the part under the lock
clear_locked(m) == [m EXCEPT !.cache = EmptyDict, !.access_order = <<>>]

\* f"{hit_rate:.1f}%": the percentage in tenths, rounded to the nearest
format_1f(num, den) == (2000 * num + den) \div (2 * den)

\* get_stats: the fields computed from the counters and the store; hit_rate
\* is the number of tenths of a percent the string shows ("33.3%" is 333)
get_stats(m, size) ==
    LET total_requests == m.hits + m.misses
    IN  [size |-> Cardinality(DOMAIN m.cache),
         max_size |-> size,
         hits |-> m.hits,
         misses |-> m.misses,
         hit_rate |-> IF total_requests > 0
                      THEN format_1f(m.hits, total_requests) ELSE 0,
         evictions |-> m.evictions]

\* the orders in which cache_dir.glob("*.json") can list the files
Listings(d) ==
    {f \in [1..Cardinality(DOMAIN d) -> DOMAIN d] :
        \A i, j \in 1..Cardinality(DOMAIN d) : f[i] = f[j] => i = j}

\* the content of a file that json.load or CacheEntry(**data) rejects
Corrupt == [corrupt |-> TRUE]

RECURSIVE load_persistent_cache_abort(_, _, _, _, _)
load_persistent_cache_abort(m, files, d, ttl, t) ==
    IF files = <<>>
    THEN m
    ELSE LET key == Head(files)
             entry == d[key]
         IN  IF entry = Corrupt
             THEN m
             ELSE IF ~is_expired(entry, ttl, t)
             THEN load_persistent_cache_abort(
                      [m EXCEPT !.cache = dict_set(@, key, entry),
                                !.access_order = Append(@, key)],
                      Tail(files), d, ttl, t)
             ELSE load_persistent_cache_abort(m, Tail(files), d, ttl, t)

\* _load_persistent_cache over the files in the order listed; a file that
\* raises is logged and the loop goes on
RECURSIVE load_persistent_cache(_, _, _, _, _)
load_persistent_cache(m, files, d, ttl, t) ==
    IF files = <<>>
    THEN m
    ELSE LET key == Head(files)
             entry == d[key]
         IN  IF entry = Corrupt
             THEN load_persistent_cache(m, Tail(files), d, ttl, t)
             ELSE IF ~is_expired(entry, ttl, t)
             THEN load_persistent_cache(
                      [m EXCEPT !.cache = dict_set(@, key, entry),
                                !.access_order = Append(@, key)],
                      Tail(files), d, ttl, t)
             ELSE load_persistent_cache(m, Tail(files), d, ttl, t)

\* the files _load_persistent_cache leaves in the directory: it unlinks the
\* expired records it parsed
files_kept(d, ttl, t) ==
    [k \in {x \in DOMAIN d : d[x] = Corrupt \/ ~is_expired(d[x], ttl, t)} |-> d[k]]

\* _save_entry_to_disk: the directory after the call; open() can fail, and
\* json.dump can fail after open() has truncated the file
save_entry_to_disk(d, key, entry, outcome) ==
    CASE outcome = "written"     -> dict_set(d, key, entry)
      [] outcome = "open_failed" -> d
      [] outcome = "dump_failed" -> dict_set(d, key, Corrupt)

save_failed_rollback(m, key) ==
    [m EXCEPT !.cache = dict_del(@, key), !.access_order = list_remove(@, key)]

\* _save_entry_to_disk: what its except branch does to the cache object
save_failed(m, key) == m

\* LLMCache.__init__ before the load
NewMem ==
    [cache |-> EmptyDict, access_order |-> <<>>, hits |-> 0, misses |-> 0, evictions |-> 0]

\* a writer thread: the key and the entry object it was handed; `live` says
\* the store still holds that object (touch() then shows in what is written)
Writer(key, entry) == [key |-> key, entry |-> entry, live |-> TRUE]

\* writers whose entry object left the store
detach(p, ks) == {IF i.key \in ks THEN [i EXCEPT !.live = FALSE] ELSE i : i \in p}

\* writers whose entry object was touched
touched(p, key) ==
    {IF i.key = key /\ i.live THEN [i EXCEPT !.entry = touch(@)] ELSE i : i \in p}

Removed(m, m2) == DOMAIN m.cache \ DOMAIN m2.cache

\* history: the keys still in the store, by last put / hit
StillStored(acc, m2) == SelectSeq(acc, LAMBDA k : k \in DOMAIN m2.cache)

\* history: key was put or hit just now
Latest(acc, key) == SelectSeq(acc, LAMBDA k : k # key) \o <<key>>

----------------------------------------------------------------------------
(* The cache used by one caller at a time: each call is one step.  The     *)
(* writer threads that put starts run on their own.                        *)

\* no graph run is going on
NoRun ==
    /\ state = EmptyDict
    /\ node = "END"
    /\ attempt = 0
    /\ fallback_enabled = FALSE
    /\ max_retries = 0
    /\ executed = <<>>
    /\ reported = NoCritique

\* no thread is inside a call
NoThreads == lock = "free" /\ pc = [t \in Threads |-> Idle]

\* the keys the callers use; a max_size above their number is never reached
KeysInUse == IF enable_persistence THEN DiskKeys ELSE Keys

\* LLMCache(max_size, ttl_seconds, enable_persistence) over an empty cache_dir
InitCache ==
    /\ NoRun
    /\ NoWrapper
    /\ NoProvider
    /\ NoThreads
    /\ cache = EmptyDict
    /\ access_order = <<>>
    /\ hits = 0
    /\ misses = 0
    /\ evictions = 0
    /\ enable_persistence \in BOOLEAN
    /\ max_size \in 0..MaxSize
    /\ max_size <= Cardinality(KeysInUse)
    /\ ttl_seconds = Ttl
    /\ now = 0
    /\ disk = EmptyDict
    /\ pending = {}
    /\ accessed = <<>>
    /\ last_call = "__init__"

Config == <<max_size, ttl_seconds, enable_persistence>>

\* cache.get(messages, model_config) for the key the arguments hash to
get(key) ==
    /\ hits + misses < MaxGets
    /\ LET branch == get_branch(Mem, key, ttl_seconds, now)
           m2 == get_locked(Mem, key, ttl_seconds, now)
       IN  /\ SetMem(m2)
           /\ pending' = IF branch = "hit" THEN touched(pending, key)
                         ELSE detach(pending, Removed(Mem, m2))
           /\ accessed' = StillStored(IF branch = "hit"
                                       THEN Latest(accessed, key)
                                       ELSE accessed, m2)
    /\ last_call' = "get"
    /\ UNCHANGED <<Config, now, disk, vars, tvars, rvars, pvars>>

\* no writer thread for the key is still running (the specifications that do
\* not study two writes of one file wait for it)
OneWriter(key) == enable_persistence => \A w \in pending : w.key # key

\* cache.put(messages, model_config, content, ...) for that key
put(key, content) ==
    LET entry == CacheEntry(content, now)
        m2 == put_locked(Mem, key, entry, max_size)
    IN  /\ m2.evictions <= MaxEvictions
        /\ SetMem(m2)
        /\ pending' = IF enable_persistence
                      THEN detach(pending, Removed(Mem, m2) \cup {key})
                               \cup {Writer(key, entry)}
                      ELSE pending
        /\ accessed' = StillStored(Latest(accessed, key), m2)
        /\ last_call' = "put"
        /\ UNCHANGED <<Config, now, disk, vars, tvars, rvars, pvars>>

\* cache.cleanup_expired()
cleanup_expired ==
    /\ LET m2 == cleanup_locked(Mem, ttl_seconds, now)
       IN  /\ SetMem(m2)
           /\ pending' = detach(pending, Removed(Mem, m2))
           /\ accessed' = StillStored(accessed, m2)
    /\ last_call' = IF expired_keys(Mem, ttl_seconds, now) = {} THEN last_call
                    ELSE "cleanup_expired"
    /\ UNCHANGED <<Config, now, disk, vars, tvars, rvars, pvars>>

\* cache.clear(): the store under the lock, then the files
clear ==
    /\ SetMem(clear_locked(Mem))
    /\ disk' = IF enable_persistence THEN EmptyDict ELSE disk
    /\ pending' = detach(pending, DOMAIN cache)
    /\ accessed' = <<>>
    /\ last_call' = "clear"
    /\ UNCHANGED <<Config, now, vars, tvars, rvars, pvars>>

\* a writer thread runs _save_entry_to_disk to its end
DiskWriteLands ==
    \E w \in pending :
        /\ disk' = save_entry_to_disk(disk, w.key, w.entry, "written")
        /\ pending' = pending \ {w}
        /\ UNCHANGED <<cache, access_order, hits, misses, evictions, Config, now,
                       accessed, last_call, vars, tvars, rvars, pvars>>

\* the process ends (its daemon writers with it) and a new one constructs
\* LLMCache with the same arguments over the same cache_dir
Restart ==
    /\ IF enable_persistence
       THEN \E files \in Listings(disk) :
               /\ SetMem(load_persistent_cache(NewMem, files, disk, ttl_seconds, now))
               /\ disk' = files_kept(disk, ttl_seconds, now)
       ELSE /\ SetMem(NewMem)
            /\ disk' = disk
    /\ pending' = {}
    /\ accessed' = <<>>
    /\ last_call' = "__init__"
    /\ UNCHANGED <<Config, now, vars, tvars, rvars, pvars>>

\* a second passes
Tick ==
    /\ now < MaxTime
    /\ now' = now + 1
    /\ UNCHANGED <<cache, access_order, hits, misses, evictions, Config,
                   disk, pending, accessed, last_call, vars, tvars, rvars, pvars>>

GetAny == \E key \in KeysInUse : get(key)
PutAny ==
    \E key \in KeysInUse, content \in Contents : OneWriter(key) /\ put(key, content)

NextCache ==
    \/ GetAny
    \/ PutAny
    \/ cleanup_expired
    \/ clear
    \/ DiskWriteLands
    \/ Restart
    \/ Tick

SpecCache == InitCache /\ [][NextCache]_allvars

----------------------------------------------------------------------------
(* The cache reconfigured at runtime by cache_manager: SpecConfigure *)

\* cache_manager.configure_cache(max_size, ttl_seconds=None)
configure_cache(new_size) ==
    /\ max_size' = new_size
    /\ last_call' = "configure_cache"
    /\ UNCHANGED <<cache, access_order, hits, misses, evictions, ttl_seconds,
                   enable_persistence, now, disk, pending, accessed>>
    /\ UNCHANGED <<vars, tvars, rvars, pvars>>

\* LLMCache(max_size=MaxSize, enable_persistence=False)
InitConfigure ==
    /\ NoRun
    /\ NoWrapper
    /\ NoProvider
    /\ NoThreads
    /\ cache = EmptyDict
    /\ access_order = <<>>
    /\ hits = 0
    /\ misses = 0
    /\ evictions = 0
    /\ enable_persistence = FALSE
    /\ max_size = MaxSize
    /\ ttl_seconds = Ttl
    /\ now = 0
    /\ disk = EmptyDict
    /\ pending = {}
    /\ accessed = <<>>
    /\ last_call = "__init__"

ConfigureAny == \E new_size \in 0..MaxSize : configure_cache(new_size)
GetStored == \E key \in Keys : get(key)
PutStored == \E key \in Keys, content \in Contents : put(key, content)

NextConfigure ==
    \/ GetStored
    \/ PutStored
    \/ ConfigureAny
    \/ Tick

SpecConfigure == InitConfigure /\ [][NextConfigure]_allvars

----------------------------------------------------------------------------
(* Puts that overwrite a key while its earlier write is still running:  *)
(* SpecWriters                                                           *)

\* LLMCache(enable_persistence=True) over an empty cache_dir, with room for
\* every key
InitWriters ==
    /\ NoRun
    /\ NoWrapper
    /\ NoProvider
    /\ NoThreads
    /\ cache = EmptyDict
    /\ access_order = <<>>
    /\ hits = 0
    /\ misses = 0
    /\ evictions = 0
    /\ enable_persistence = TRUE
    /\ max_size = Cardinality(DiskKeys)
    /\ ttl_seconds = Ttl
    /\ now = 0
    /\ disk = EmptyDict
    /\ pending = {}
    /\ accessed = <<>>
    /\ last_call = "__init__"

PutAgain == \E key \in DiskKeys, content \in Contents : put(key, content)

NextWriters ==
    \/ PutAgain
    \/ DiskWriteLands
    \/ Tick

SpecWriters == InitWriters /\ [][NextWriters]_allvars

----------------------------------------------------------------------------
(* The persistent cache over a directory whose writes can fail: SpecDisk   *)
(* follows one process, SpecLoad the records from one process to the next. *)

\* a writer thread runs _save_entry_to_disk, which raises inside its try
DiskWriteFails ==
    \E w \in pending, outcome \in {"open_failed", "dump_failed"} :
        /\ disk' = save_entry_to_disk(disk, w.key, w.entry, outcome)
        /\ pending' = pending \ {w}
        /\ SetMem(save_failed(Mem, w.key))
        /\ last_call' = "save_failed"
        /\ UNCHANGED <<Config, now, accessed, vars, tvars, rvars, pvars>>

\* LLMCache(max_size, ttl_seconds, enable_persistence=True) over an empty
\* cache_dir, with room for every key: this cache never evicts
InitDisk ==
    /\ NoRun
    /\ NoWrapper
    /\ NoProvider
    /\ NoThreads
    /\ cache = EmptyDict
    /\ access_order = <<>>
    /\ hits = 0
    /\ misses = 0
    /\ evictions = 0
    /\ enable_persistence = TRUE
    /\ max_size = Cardinality(Keys)
    /\ ttl_seconds = Ttl
    /\ now = 0
    /\ disk = EmptyDict
    /\ pending = {}
    /\ accessed = <<>>
    /\ last_call = "__init__"

GetDisk == \E key \in Keys : get(key)
\* an instance stores each key once
PutDisk ==
    \E key \in Keys \ DOMAIN cache, content \in Contents :
        OneWriter(key) /\ put(key, content)

\* one process: its calls and its writer threads
NextDisk ==
    \/ GetDisk
    \/ PutDisk
    \/ DiskWriteLands
    \/ DiskWriteFails
    \/ Tick

SpecDisk == InitDisk /\ [][NextDisk]_allvars

\* processes that store, write and end, each constructing its cache over
\* what the earlier ones left in cache_dir
NextLoad ==
    \/ PutDisk
    \/ DiskWriteLands
    \/ DiskWriteFails
    \/ Restart
    \/ Tick

SpecLoad == InitDisk /\ [][NextLoad]_allvars

----------------------------------------------------------------------------
(* The cache used by two threads at once.  A call is a sequence of steps:   *)
(* the thread computes the key (put also builds its entry), takes the lock, *)
(* runs the statements of the with-block, and leaves the block.  A step of  *)
(* one thread can be followed by a step of the other, of a writer thread or *)
(* of the clock.                                                            *)

\* the thread is at place `at` of the call it is in
At(t, op, at) == pc[t].op = op /\ pc[t].at = at

\* the thread moves to place `at`
Goto(t, at) == pc' = [pc EXCEPT ![t].at = at]

ThreadsIn(op) == {t \in Threads : pc[t].op = op}

may_return_joined(p, writers) == p.op = "put" => \A w \in writers : w.key # p.key

\* put returns as soon as Thread.start() has: it joins nothing
may_return(p, writers) == TRUE

\* the records an earlier process can have left in cache_dir
Records == {[k \in S |-> CacheEntry("reply", 0)] : S \in SUBSET DiskKeys}

\* LLMCache(max_size, ttl_seconds, enable_persistence=True) constructed over a
\* cache_dir that holds such records, and then shared by the threads
InitThreads ==
    /\ NoRun
    /\ NoWrapper
    /\ NoProvider
    /\ NoThreads
    /\ enable_persistence = TRUE
    /\ max_size \in 0..MaxSize
    /\ max_size <= Cardinality(KeysInUse)
    /\ ttl_seconds = Ttl
    /\ now = 0
    /\ disk \in Records
    /\ \E files \in Listings(disk) :
          LET m == load_persistent_cache(NewMem, files, disk, ttl_seconds, now)
          IN  /\ cache = m.cache
              /\ access_order = m.access_order
              /\ hits = m.hits
              /\ misses = m.misses
              /\ evictions = m.evictions
    /\ pending = {}
    /\ accessed = <<>>
    /\ last_call = "__init__"

\* the thread is in no call, having made n calls
Back(n) == [Idle EXCEPT !.n = n]

RECURSIVE Sum(_, _)
Sum(f, S) == IF S = {} THEN 0 ELSE LET x == CHOOSE x \in S : TRUE
                                   IN  f[x] + Sum(f, S \ {x})

\* history: the calls the threads have made
CallsMade == Sum([t \in Threads |-> pc[t].n], Threads)

\* a thread calls get / put / cleanup_expired / clear
Call(t) ==
    /\ pc[t].op = "idle"
    /\ CallsMade < MaxCalls
    /\ LET p == [Idle EXCEPT !.at = "lock", !.n = pc[t].n + 1]
       IN  \/ \E key \in KeysInUse :
                pc' = [pc EXCEPT ![t] = [p EXCEPT !.op = "get", !.key = key]]
           \/ \E key \in KeysInUse :
                pc' = [pc EXCEPT ![t] = [p EXCEPT !.op = "put", !.key = key,
                                                  !.ts = now]]
           \/ pc' = [pc EXCEPT ![t] = [p EXCEPT !.op = "cleanup_expired"]]
           \/ pc' = [pc EXCEPT ![t] = [p EXCEPT !.op = "clear"]]
    /\ UNCHANGED <<cvars, lock, vars, rvars, pvars>>

\* with self._lock: entered
Acquire(t) ==
    /\ pc[t].at = "lock"
    /\ lock = "free"
    /\ lock' = t
    /\ Goto(t, "locked")
    /\ UNCHANGED <<cvars, vars, rvars, pvars>>

\* with self._lock: left; get, put and cleanup_expired return here
Release(t) ==
    /\ pc[t].at = "unlock"
    /\ lock = t
    /\ may_return(pc[t], pending)
    /\ lock' = "free"
    /\ pc' = [pc EXCEPT ![t] = IF pc[t].op = "clear"
                               THEN [Idle EXCEPT !.op = "clear", !.at = "files",
                                                 !.n = pc[t].n]
                               ELSE Back(pc[t].n)]
    /\ last_call' = IF pc[t].op = "cleanup_expired" /\ pc[t].ks = {}
                    THEN last_call ELSE pc[t].op
    /\ UNCHANGED <<cache, access_order, hits, misses, evictions, Config, now, disk,
                   pending, accessed, vars, rvars, pvars>>

\* a statement under the lock that takes the cache object from Mem to m2
Locked(t, m2, at, writers, acc) ==
    /\ lock = t
    /\ SetMem(m2)
    /\ Goto(t, at)
    /\ pending' = writers
    /\ accessed' = StillStored(acc, m2)
    /\ UNCHANGED <<Config, now, disk, last_call, lock, vars, rvars, pvars>>

\* get: the lookup and the first change
GetBegin(t) ==
    /\ At(t, "get", "locked")
    /\ LET key == pc[t].key
           branch == get_branch(Mem, key, ttl_seconds, now)
           m2 == get_begin(Mem, key, branch)
       IN  Locked(t, m2, IF branch = "absent" THEN "unlock" ELSE branch,
                  detach(pending, Removed(Mem, m2)),
                  IF branch = "hit" THEN Latest(accessed, key) ELSE accessed)

\* get: the rest of the branch
GetEnd(t) ==
    /\ pc[t].op = "get" /\ pc[t].at \in {"expired", "hit"}
    /\ LET key == pc[t].key
       IN  Locked(t, get_end(Mem, key, pc[t].at), "unlock",
                  IF pc[t].at = "hit" THEN touched(pending, key) ELSE pending,
                  accessed)

\* put: the eviction, if any
PutEvict(t) ==
    /\ At(t, "put", "locked")
    /\ LET m2 == put_evict(Mem, pc[t].key, max_size)
       IN  Locked(t, m2, "evicted", detach(pending, Removed(Mem, m2)), accessed)

\* put: self._cache[key] = entry
PutStore(t) ==
    /\ At(t, "put", "evicted")
    /\ LET key == pc[t].key
       IN  Locked(t, put_store(Mem, key, CacheEntry("reply", pc[t].ts)), "stored",
                  detach(pending, {key}), accessed)

\* put: the access order, and the writer thread started
PutOrder(t) ==
    /\ At(t, "put", "stored")
    /\ LET key == pc[t].key
       IN  Locked(t, put_order(Mem, key), "unlock",
                  IF enable_persistence
                  THEN pending \cup {Writer(key, cache[key])} ELSE pending,
                  Latest(accessed, key))

\* cleanup_expired: the expired keys leave the store
CleanupStore(t) ==
    /\ At(t, "cleanup_expired", "locked")
    /\ LET ks == expired_keys(Mem, ttl_seconds, now)
       IN  /\ lock = t
           /\ SetMem(cleanup_store(Mem, ks))
           /\ pc' = [pc EXCEPT ![t].at = "deleted", ![t].ks = ks]
           /\ pending' = detach(pending, ks)
           /\ UNCHANGED <<Config, now, disk, accessed, last_call, lock, vars, rvars, pvars>>

\* cleanup_expired: the expired keys leave the access order
CleanupOrder(t) ==
    /\ At(t, "cleanup_expired", "deleted")
    /\ LET m2 == cleanup_order(Mem, pc[t].ks)
       IN  Locked(t, m2, "unlock", pending, accessed)

\* clear: self._cache.clear()
ClearStore(t) ==
    /\ At(t, "clear", "locked")
    /\ Locked(t, [Mem EXCEPT !.cache = EmptyDict], "cache_cleared",
              detach(pending, DOMAIN cache), accessed)

\* clear: self._access_order.clear()
ClearOrder(t) ==
    /\ At(t, "clear", "cache_cleared")
    /\ Locked(t, [Mem EXCEPT !.access_order = <<>>], "unlock", pending, accessed)

\* clear: the files are unlinked, outside the lock, and clear returns
ClearFiles(t) ==
    /\ At(t, "clear", "files")
    /\ disk' = IF enable_persistence THEN EmptyDict ELSE disk
    /\ pc' = [pc EXCEPT ![t] = Back(pc[t].n)]
    /\ UNCHANGED <<cache, access_order, hits, misses, evictions, Config, now,
                   pending, accessed, last_call, lock, vars, rvars, pvars>>

CallAny == \E t \in Threads : Call(t)
AcquireAny == \E t \in Threads : Acquire(t)
ReleaseAny == \E t \in Threads : Release(t)
GetBeginAny == \E t \in Threads : GetBegin(t)
GetEndAny == \E t \in Threads : GetEnd(t)
PutEvictAny == \E t \in Threads : PutEvict(t)
PutStoreAny == \E t \in Threads : PutStore(t)
PutOrderAny == \E t \in Threads : PutOrder(t)
CleanupStoreAny == \E t \in Threads : CleanupStore(t)
CleanupOrderAny == \E t \in Threads : CleanupOrder(t)
ClearStoreAny == \E t \in Threads : ClearStore(t)
ClearOrderAny == \E t \in Threads : ClearOrder(t)
ClearFilesAny == \E t \in Threads : ClearFiles(t)

NextThreads ==
    \/ CallAny
    \/ AcquireAny
    \/ ReleaseAny
    \/ GetBeginAny
    \/ GetEndAny
    \/ PutEvictAny
    \/ PutStoreAny
    \/ PutOrderAny
    \/ CleanupStoreAny
    \/ CleanupOrderAny
    \/ ClearStoreAny
    \/ ClearOrderAny
    \/ ClearFilesAny
    \/ DiskWriteLands
    \/ Tick

SpecThreads == InitThreads /\ [][NextThreads]_allvars

----------------------------------------------------------------------------
(* Properties of the cache *)

Size == Cardinality(DOMAIN cache)

\* the access order lists exactly the keys of the store, each once
Consistent(m) ==
    /\ Len(m.access_order) = Cardinality(DOMAIN m.cache)
    /\ {m.access_order[i] : i \in 1..Len(m.access_order)} = DOMAIN m.cache

\* C11: for every max_size, after each put the store holds at most max_size entries
C11_SizeBoundAfterPut == [][PutAny => Cardinality(DOMAIN cache') <= max_size]_allvars

\* the same bound for a cache of at least one slot that was within it before the put
C11_SizeBoundKept ==
    [][(PutAny /\ max_size >= 1 /\ Size <= max_size)
          => Cardinality(DOMAIN cache') <= max_size]_allvars

\* a restarted cache has loaded more records than max_size
C11_LoadedOverMaxSize == max_size >= 1 /\ Size > max_size

LeastRecentlyAccessed(key) ==
    IF \A k \in DOMAIN cache : \E i \in 1..Len(accessed) : accessed[i] = k
    THEN key = accessed[1]
    ELSE \A i \in 1..Len(accessed) : accessed[i] # key

PutKey(key) == \E content \in Contents : put(key, content)

EvictsOne ==
    /\ evictions' = evictions + 1
    /\ Cardinality(DOMAIN cache \ DOMAIN cache') = 1

EvictsNothing ==
    /\ evictions' = evictions
    /\ DOMAIN cache \subseteq DOMAIN cache'

\* C14: a put of a new key into a store that holds max_size entries evicts
\* exactly one entry; an overwrite, or a put below max_size, evicts nothing
C14_EvictsExactlyOne ==
    [][\A key \in Keys : PutKey(key) =>
          /\ (key \notin DOMAIN cache /\ Size = max_size) => EvictsOne
          /\ (key \in DOMAIN cache \/ Size < max_size) => EvictsNothing]_allvars

\* C14 for a cache of at least one slot
C14_EvictsExactlyOneIfSlots ==
    [][\A key \in Keys : PutKey(key) =>
          /\ (key \notin DOMAIN cache /\ Size = max_size /\ max_size >= 1) => EvictsOne
          /\ (key \in DOMAIN cache \/ Size < max_size) => EvictsNothing]_allvars

\* a put of a new key has just evicted from a full store of one or more slots
C14_Witness ==
    /\ last_call = "put"
    /\ max_size >= 1
    /\ Size = max_size
    /\ evictions = 1
    /\ \E k \in DOMAIN cache : cache[k].timestamp = now /\ access_order[Len(access_order)] = k

IsHit == hits' = hits + 1 /\ misses' = misses
IsMiss == misses' = misses + 1 /\ hits' = hits

\* C15: a get of an entry stored at T is a miss at every time t >= T + ttl_seconds,
\* t = T + ttl_seconds included, and a hit at every time t < T + ttl_seconds
C15_MissFromTtl ==
    [][\A key \in Keys : (get(key) /\ key \in DOMAIN cache) =>
          IF now >= cache[key].timestamp + ttl_seconds THEN IsMiss ELSE IsHit]_allvars

\* C15 with the entry still served at t = T + ttl_seconds
C15_MissAfterTtl ==
    [][\A key \in Keys : (get(key) /\ key \in DOMAIN cache) =>
          IF now > cache[key].timestamp + ttl_seconds THEN IsMiss ELSE IsHit]_allvars

\* an entry was hit when its age was ttl_seconds or more
C15_Witness ==
    \E k \in DOMAIN cache :
        /\ last_call = "get"
        /\ cache[k].access_count = 1
        /\ hits = 1
        /\ now = cache[k].timestamp + ttl_seconds

InOrder(key, order) == \E i \in 1..Len(order) : order[i] = key

MemAfter ==
    [cache |-> cache', access_order |-> access_order',
     hits |-> hits', misses |-> misses', evictions |-> evictions']

\* C17: cleanup_expired removes the entries whose age exceeds ttl_seconds and
\* no other, and a second run right after the first removes nothing
C17_Cleanup ==
    [][cleanup_expired =>
        LET old == {k \in DOMAIN cache : now - cache[k].timestamp > ttl_seconds}
        IN  /\ cache' = [k \in DOMAIN cache \ old |-> cache[k]]
            /\ access_order' = SelectSeq(access_order, LAMBDA k : k \notin old)
            /\ cleanup_locked(MemAfter, ttl_seconds, now) = MemAfter]_allvars

\* cleanup_expired removed an entry and a younger one stayed
C17_Witness ==
    /\ last_call = "cleanup_expired"
    /\ \E k \in DOMAIN cache : now - cache[k].timestamp <= ttl_seconds

\* C18: once clear() has returned and the writer threads have finished, the
\* store is empty and, with persistence, the directory holds no record
C18_ClearLeavesNothing ==
    (last_call = "clear" /\ pending = {})
        => (cache = EmptyDict /\ (enable_persistence => disk = EmptyDict))

\* C19: under any interleaving of get, put, cleanup_expired and clear by
\* concurrent threads, every state another thread can observe (the lock is
\* free) has the store within max_size and the access order consistent with it
C19_AtomicCalls == lock = "free" => (Consistent(Mem) /\ Size <= max_size)

\* the part of C19 that is about the lock: no thread observes a store and an
\* access order that disagree
C19_ConsistentWhenUnlocked == lock = "free" => Consistent(Mem)

\* inside a with-block the store and the access order do disagree
C19_TornWhileLocked == lock # "free" /\ ~Consistent(Mem)

\* C20: the write a put starts never holds the cache lock and put does not wait
\* for it: with that write pending, the writer can run whoever holds the lock,
\* put can return, and the other thread can take the lock and go on
C20_WriteOffTheLock ==
    pending # {} =>
        /\ lock \in Threads \cup {"free"}
        /\ ENABLED DiskWriteLands
        /\ \A t \in Threads :
              /\ (pc[t].at = "unlock" /\ lock = t) => ENABLED Release(t)
              /\ (pc[t].at = "lock" /\ lock = "free") => ENABLED Acquire(t)

\* a put has returned, its write is still pending, and since then another call
\* has hit the entry and returned
C20_Witness ==
    /\ \A t \in Threads : pc[t].op = "idle"
    /\ last_call = "get"
    /\ \E w \in pending : w.live /\ w.entry.access_count >= 1

\* the write of the entry now stored under key failed after truncating the file
WriteFailed(key) ==
    /\ key \in DOMAIN cache
    /\ key \in DOMAIN disk
    /\ disk[key] = Corrupt
    /\ \A w \in pending : w.key # key

\* C21: a write that fails leaves the store, the access order and the counters
\* as they were, which is how a write that succeeds leaves them; no caller is
\* affected; and a later get of that key is the hit or miss its age decides,
\* returning the stored entry on a hit
C21_FailedWriteHarmless ==
    /\ [][DiskWriteFails => (MemAfter = Mem /\ UNCHANGED <<vars, tvars, rvars, pvars>>)]_allvars
    /\ [][DiskWriteLands => MemAfter = Mem]_allvars
    /\ [][\A key \in Keys : (get(key) /\ WriteFailed(key)) =>
            IF now - cache[key].timestamp > ttl_seconds
            THEN IsMiss /\ get_returns(Mem, key, ttl_seconds, now) = None
            ELSE /\ IsHit
                 /\ get_returns(Mem, key, ttl_seconds, now) = cache'[key]
                 /\ cache'[key].content = cache[key].content]_allvars

\* the write of an entry failed and a get then hit that entry
C21_Witness ==
    /\ last_call = "get"
    /\ hits = 1
    /\ \E key \in Keys : WriteFailed(key) /\ cache[key].access_count = 1

\* C22: a cache constructed with persistence loads every record it can parse
\* whose age is within ttl_seconds, as written, into the store and the access
\* order; it loads no record whose age exceeds ttl_seconds and deletes its
\* file; a record it cannot parse stops neither and stays in the directory
C22_StartupLoad ==
    [][Restart =>
        LET parsed == {k \in DOMAIN disk : disk[k] # Corrupt}
            fresh == {k \in parsed : now - disk[k].timestamp <= ttl_seconds}
            old == parsed \ fresh
        IN  /\ DOMAIN cache' = fresh
            /\ \A k \in fresh : cache'[k] = disk[k]
            /\ Consistent(MemAfter)
            /\ DOMAIN disk' = DOMAIN disk \ old
            /\ \A k \in DOMAIN disk' : disk'[k] = disk[k]]_allvars

\* a cache was constructed over a record of age ttl_seconds, which it loaded,
\* and a record it could not parse
C22_Witness ==
    /\ last_call = "__init__"
    /\ \E k \in DOMAIN cache : now - cache[k].timestamp = ttl_seconds
    /\ \E k \in DOMAIN disk : disk[k] = Corrupt
    /\ Cardinality(DOMAIN disk) < Cardinality(Keys)

\* a call of get, put, cleanup_expired or clear on the cache object
AnyCall == GetAny \/ PutAny \/ cleanup_expired \/ clear

\* the reported rate is the percentage of hits among the gets, to the tenth
RateIsHitsOverGets ==
    LET stats == get_stats(Mem, max_size)
        gets == hits + misses
    IN  /\ stats.hits = hits /\ stats.misses = misses /\ stats.evictions = evictions
        /\ gets = 0 => stats.hit_rate = 0
        /\ gets > 0 => /\ 2 * (stats.hit_rate * gets - 1000 * hits) <= gets
                        /\ 2 * (1000 * hits - stats.hit_rate * gets) <= gets

\* C23: no get, put, cleanup_expired or clear decreases hits, misses or
\* evictions; a get adds 1 to exactly one of hits and misses (to misses when the
\* entry is expired) and no other call changes them, so hits + misses counts
\* the gets; get_stats reports hits / (hits + misses) as a percentage, and 0
\* when there was no get
C23_Counters ==
    /\ [][AnyCall => (hits' >= hits /\ misses' >= misses /\ evictions' >= evictions)]_allvars
    /\ [][\A key \in Keys : get(key) =>
            /\ IsHit \/ IsMiss
            /\ (key \in DOMAIN cache /\ now - cache[key].timestamp > ttl_seconds)
                  => IsMiss]_allvars
    /\ [][(PutAny \/ cleanup_expired \/ clear) => UNCHANGED <<hits, misses>>]_allvars
    /\ []RateIsHitsOverGets

\* the counters of a cache that has served a get and evicted are still there
\* after clear
C23_Witness ==
    /\ last_call = "clear"
    /\ hits + misses = 1
    /\ evictions = 1
    /\ get_stats(Mem, max_size).hit_rate = 1000 * hits

----------------------------------------------------------------------------
(* agents/llm_provider.py: OpenAIProvider.invoke over the response cache.  *)
(* A request is the list of messages a node sends and the ModelConfig of   *)
(* the provider it sends them through.  Temperatures are tenths.           *)

MaxInvokes == 3     \* provider calls that reach the cache, per cache

\* the lists of messages sent: two orders of the same pair, and a list that
\* differs from the first in the type of a message only
MessageLists ==
    { <<SystemMessage("sys"), HumanMessage("topic")>>,
      <<HumanMessage("topic"), SystemMessage("sys")>>,
      <<SystemMessage("sys"), AIMessage("topic")>> }

\* ModelConfig(provider, model_name, temperature, max_tokens, timeout, cost_per_token)
ModelConfigs ==
    [provider : {"openai", "local"}, model_name : {"gpt-4o-mini"},
     temperature : {0, 4}, max_tokens : {None}, timeout : {120},
     cost_per_token : {0, 2}]

\* ModelConfig.to_dict
to_dict(cfg) ==
    [k \in {"provider", "model_name", "temperature", "max_tokens", "timeout",
            "cost_per_token"} |-> cfg[k]]

generate_key_any_temperature(messages, model_config) ==
    [messages |-> [i \in 1..Len(messages) |->
                      [type |-> messages[i].type, content |-> messages[i].content]],
     model_config |-> [k \in DOMAIN model_config \cap {"model_name", "max_tokens"}
                          |-> model_config[k]]]

\* LLMCache._generate_key: the content that is serialized with sorted keys
\* and hashed; the key of the model is that content (two contents that
\* differ are taken to have different MD5 digests)
generate_key(messages, model_config) ==
    [messages |-> [i \in 1..Len(messages) |->
                      [type |-> messages[i].type, content |-> messages[i].content]],
     model_config |-> [k \in DOMAIN model_config
                               \cap {"model_name", "temperature", "max_tokens"}
                          |-> model_config[k]]]

\* what the live model answers: a text that depends on the messages it was
\* sent and on the model and temperature its client was initialized with
LiveReply(messages, cfg) ==
    [to |-> messages, model_name |-> cfg.model_name, temperature |-> cfg.temperature]

\* ModelResponse(content, response_time, ...); `live` is history: the model
\* was called for it
ModelResponse(content, response_time, live) ==
    [kind |-> "returned", content |-> content, response_time |-> response_time,
     live |-> live]

\* invoke raised what self._client.invoke raised
ProviderError == [kind |-> "raised", live |-> TRUE]

\* invoke raised what initialize() raised: ChatOpenAI could not be constructed
InitializeError == [kind |-> "raised", live |-> FALSE]

\* if not self._client: self.initialize() -- invoke ends here when it raises
initialize_raises(c, inits) == c = "none" /\ ~inits

\* OpenAIProvider.invoke(messages) of a provider whose config is cfg: when
\* the client has to be initialized that succeeds or not (inits); the live
\* call, when it is made, takes `took` seconds and succeeds or not
invoke(messages, cfg, inits, took, succeeds) ==
    LET key == generate_key(messages, to_dict(cfg))
        branch == get_branch(Mem, key, ttl_seconds, now)
        looked == get_locked(Mem, key, ttl_seconds, now)
        reply == LiveReply(messages, cfg)
        entry == CacheEntry(reply, now + took)
        stored == put_locked(looked, key, entry, max_size)
        missed == detach(pending, Removed(Mem, looked))
    IN  IF initialize_raises(client, inits)
        THEN /\ took = 0 /\ succeeds
             /\ response' = InitializeError
             /\ UNCHANGED <<cvars, enable_cache, client, mvars, vars, tvars, rvars>>
        ELSE IF enable_cache /\ branch = "hit"
        THEN /\ took = 0 /\ succeeds
             /\ client' = "ready"
             /\ SetMem(looked)
             /\ response' = ModelResponse(get_returns(Mem, key, ttl_seconds, now).content,
                                           0, FALSE)
             /\ pending' = touched(pending, key)
             /\ accessed' = StillStored(Latest(accessed, key), looked)
             /\ last_call' = "get"
             /\ UNCHANGED <<Config, now, disk, enable_cache, mvars, vars, tvars, rvars>>
        ELSE /\ now + took <= MaxTime
             /\ client' = "ready"
             /\ now' = now + took
             /\ response' = IF succeeds THEN ModelResponse(reply, took, TRUE)
                             ELSE ProviderError
             /\ IF ~enable_cache
                THEN UNCHANGED <<cache, access_order, hits, misses, evictions,
                                 pending, accessed, last_call>>
                ELSE IF succeeds
                THEN /\ enable_persistence => \A w \in pending : w.key # key
                     /\ SetMem(stored)
                     /\ pending' = IF enable_persistence
                                   THEN detach(missed, Removed(looked, stored) \cup {key})
                                            \cup {Writer(key, entry)}
                                   ELSE missed
                     /\ accessed' = StillStored(Latest(accessed, key), stored)
                     /\ last_call' = "put"
                ELSE /\ SetMem(looked)
                     /\ pending' = missed
                     /\ accessed' = StillStored(accessed, looked)
                     /\ last_call' = "get"
             /\ UNCHANGED <<Config, disk, enable_cache, mvars, vars, tvars, rvars>>

Requests == MessageLists \X ModelConfigs

\* a provider over a cache that get_cache(max_size, ttl_seconds, False) made
InitProvider ==
    /\ NoRun
    /\ NoWrapper
    /\ NoThreads
    /\ enable_cache \in BOOLEAN
    /\ client \in {"none", "ready"}
    /\ response = NoResponse
    /\ NoManager
    /\ cache = EmptyDict
    /\ access_order = <<>>
    /\ hits = 0
    /\ misses = 0
    /\ evictions = 0
    /\ enable_persistence = FALSE
    /\ max_size \in 0..MaxSize
    /\ ttl_seconds = Ttl
    /\ now = 0
    /\ disk = EmptyDict
    /\ pending = {}
    /\ accessed = <<>>
    /\ last_call = "__init__"

InvokeAny ==
    /\ hits + misses < MaxInvokes
    /\ \E r \in Requests, inits \in BOOLEAN, took \in 0..1, succeeds \in BOOLEAN :
          invoke(r[1], r[2], inits, took, succeeds)

NextProvider ==
    \/ InvokeAny
    \/ Tick

SpecProvider == InitProvider /\ [][NextProvider]_allvars

\* A provider over the persistent cache that get_cache() builds by default:
\* OpenAIProvider(config) in a process that finds cache_dir empty
InitWarm ==
    /\ NoRun
    /\ NoWrapper
    /\ NoThreads
    /\ enable_cache = TRUE
    /\ client = "none"
    /\ response = NoResponse
    /\ NoManager
    /\ cache = EmptyDict
    /\ access_order = <<>>
    /\ hits = 0
    /\ misses = 0
    /\ evictions = 0
    /\ enable_persistence = TRUE
    /\ max_size = MaxSize
    /\ ttl_seconds = Ttl
    /\ now = 0
    /\ disk = EmptyDict
    /\ pending = {}
    /\ accessed = <<>>
    /\ last_call = "__init__"

\* the process ends (its daemon writers with it) and a second later a new one
\* constructs the provider: get_cache() builds the cache over the same
\* cache_dir and the new provider has no client yet
NewProcess ==
    /\ now < MaxTime
    /\ now' = now + 1
    /\ \E files \in Listings(disk) :
          /\ SetMem(load_persistent_cache(NewMem, files, disk, ttl_seconds, now'))
          /\ disk' = files_kept(disk, ttl_seconds, now')
    /\ pending' = {}
    /\ accessed' = <<>>
    /\ last_call' = "__init__"
    /\ client' = "none"
    /\ response' = NoResponse
    /\ UNCHANGED <<Config, enable_cache, mvars, vars, tvars, rvars>>

\* the one configuration of the provider explored over the persistent cache
DefaultConfig ==
    CHOOSE cfg \in ModelConfigs :
        cfg.provider = "openai" /\ cfg.temperature = 0 /\ cfg.cost_per_token = 0

InvokeDefault ==
    /\ hits + misses < MaxInvokes
    /\ \E messages \in MessageLists, inits \in BOOLEAN, took \in 0..1, succeeds \in BOOLEAN :
          invoke(messages, DefaultConfig, inits, took, succeeds)

NextWarm ==
    \/ InvokeDefault
    \/ DiskWriteLands
    \/ NewProcess
    \/ Tick

SpecWarm == InitWarm /\ [][NextWarm]_allvars

SameFingerprint(r1, r2) ==
    /\ r1[1] = r2[1]
    /\ \A k \in {"model_name", "temperature", "max_tokens"} : r1[2][k] = r2[2][k]

OnlyTemperatureDiffers(r1, r2) ==
    /\ r1[1] = r2[1]
    /\ r1[2].temperature # r2[2].temperature
    /\ \A k \in DOMAIN r1[2] \ {"temperature"} : r1[2][k] = r2[2][k]

KeyOf(r) == generate_key(r[1], to_dict(r[2]))

\* C24: requests with the same ordered (type, content) pairs and the same
\* model_name, temperature and max_tokens get the same key whatever their
\* provider, timeout and cost_per_token; requests that differ only in
\* temperature get different keys, and a response served from the cache was
\* stored for the messages and the temperature of the request it answers
C24_KeyOfRequest ==
    /\ [](\A r1, r2 \in Requests :
            /\ SameFingerprint(r1, r2) => KeyOf(r1) = KeyOf(r2)
            /\ OnlyTemperatureDiffers(r1, r2) => KeyOf(r1) # KeyOf(r2))
    /\ [][\A r \in Requests, inits \in BOOLEAN, took \in 0..1, succeeds \in BOOLEAN :
            (/\ invoke(r[1], r[2], inits, took, succeeds)
             /\ response'.kind = "returned" /\ ~response'.live) =>
                /\ response'.content.to = r[1]
                /\ response'.content.temperature = r[2].temperature]_allvars

\* entries are stored for the same messages under both temperatures, and a
\* request was then served from the cache
C24_Witness ==
    /\ response.kind = "returned" /\ ~response.live
    /\ \E k1, k2 \in DOMAIN cache :
          /\ k1.messages = k2.messages
          /\ k1.model_config.temperature # k2.model_config.temperature
          /\ cache[k1].access_count = 1

----------------------------------------------------------------------------
(* agents/error_handler.py: one call of the wrapper that                   *)
(* with_retry_and_timeout(config) puts around func, followed execution by  *)
(* execution of func.  Delays are whole multiples of a time unit.          *)

RetryCap == 3       \* max_retries is drawn from 0..RetryCap
MaxDelay == 2       \* retry_delay is drawn from 1..MaxDelay

\* what func can raise
Exceptions == {"APIError", "ValueError"}

last_attempt_early(a, retries) == a >= retries - 1

\* if attempt == config.max_retries: break
last_attempt(a, retries) == a = retries

delay_from_two(base, exponential, a) ==
    IF exponential THEN base * (2 ^ (a + 1)) ELSE base

\* the delay slept after the failure of attempt a (counted from 0)
delay(base, exponential, a) ==
    IF exponential THEN base * (2 ^ a) ELSE base

first_exception(cs) == cs[1].error

\* last_exception once the loop is left
last_exception(cs) == cs[Len(cs)].error

\* what func returns when it does
FuncResult(name) == [messages |-> <<AIMessage("tweet one")>>, by |-> name]

\* the statements after the loop
all_attempts_failed(name, fallback, cs) ==
    IF fallback
    THEN [kind |-> "returned", value |-> create_fallback_response(name)]
    ELSE [kind |-> "raised", value |-> last_exception(cs)]

\* the wrapper is called with config and has executed nothing yet
InitRetry ==
    /\ state = EmptyDict
    /\ node \in Nodes
    /\ attempt = 0
    /\ fallback_enabled \in BOOLEAN
    /\ max_retries \in 0..RetryCap
    /\ executed = <<>>
    /\ reported = NoCritique
    /\ exponential_backoff \in BOOLEAN
    /\ retry_delay \in 1..MaxDelay
    /\ slept = <<>>
    /\ calls = <<>>
    /\ wrapper_result = NoResult
    /\ NoCache
    /\ NoProvider

\* func returns: the wrapper returns its result
FuncReturns ==
    /\ wrapper_result = NoResult
    /\ calls' = Append(calls, [outcome |-> "returned", error |-> "-"])
    /\ wrapper_result' = [kind |-> "returned", value |-> FuncResult(node)]
    /\ UNCHANGED <<exponential_backoff, retry_delay, slept, vars, cvars, tvars, pvars>>

\* func raises: the except branch, and after the last attempt the
\* statements that follow the loop
FuncRaises ==
    /\ wrapper_result = NoResult
    /\ \E e \in Exceptions :
          LET cs == Append(calls, [outcome |-> "raised", error |-> e])
          IN  /\ calls' = cs
              /\ IF last_attempt(attempt, max_retries)
                 THEN /\ wrapper_result' = all_attempts_failed(node, fallback_enabled, cs)
                      /\ UNCHANGED <<attempt, slept>>
                 ELSE /\ slept' = Append(slept, delay(retry_delay, exponential_backoff, attempt))
                      /\ attempt' = attempt + 1
                      /\ UNCHANGED wrapper_result
    /\ UNCHANGED <<state, node, fallback_enabled, max_retries, executed, reported,
                   exponential_backoff, retry_delay, cvars, tvars, pvars>>

NextRetry ==
    \/ FuncReturns
    \/ FuncRaises

SpecRetry == InitRetry /\ [][NextRetry]_allvars

----------------------------------------------------------------------------
(* ModelManager: the registry of providers by role.  A provider is the     *)
(* record of its config and of its client; the registry holds providers by *)
(* value.  One manager call runs at a time.                                *)

MaxManagerCalls == 3    \* manager calls explored per registry

\* ModelType
Roles == {"generation", "critique", "rewrite"}

\* ProviderType
ProviderTypes == {"openai", "anthropic", "local"}

\* the ModelConfig arguments of switch_provider
NewConfigs == [provider : ProviderTypes, model_name : {"gpt-4o"}]

\* the configs of the providers handed to add_fallback_provider
FallbackConfigs == [provider : {"openai"}, model_name : {"gpt-4o", "gpt-3.5-turbo"}]

\* ModelManager._initialize_default_providers: the config of every role
default_config == [provider |-> "openai", model_name |-> "gpt-4o-mini"]

\* OpenAIProvider(config): no client yet
OpenAIProvider(cfg) == [config |-> cfg, client |-> "none"]

\* provider.initialize() that did not raise
initialize(p) == [p EXCEPT !.client = "ready"]

\* how provider.is_available() can go: initialize() raises (only tried when
\* there is no client), the test request raises, or both succeed
ProbeOutcomes(p) ==
    IF p.client = "none" THEN {"init_failed", "probe_failed", "ok"}
    ELSE {"probe_failed", "ok"}

is_available_always(outcome) == TRUE

\* is_available(): True only if nothing raised
is_available(outcome) == outcome = "ok"

\* the provider after is_available(): the client stays when it was built
probed(p, outcome) == IF outcome = "init_failed" THEN p ELSE initialize(p)

\* the fallback list get_provider iterates over
fallbacks_of(fbs, role) == IF role \in DOMAIN fbs THEN fbs[role] ELSE <<>>

first_available_last(fbs, probe) ==
    LET ok == {i \in 1..Len(fbs) : is_available(probe[i])}
    IN  IF ok = {} THEN 0 ELSE CHOOSE i \in ok : \A j \in ok : j <= i

\* for fallback in self._fallback_providers[model_type]: the index of the
\* first one whose probe succeeds, 0 if none
first_available(fbs, probe) ==
    LET ok == {i \in 1..Len(fbs) : is_available(probe[i])}
    IN  IF ok = {} THEN 0 ELSE CHOOSE i \in ok : \A j \in ok : i <= j

\* the probes get_provider can meet for a role: the outcome for the active
\* provider (index 0) and for each fallback
Probes(role) ==
    LET fbs == fallbacks_of(fallback_providers, role)
    IN  {pr \in [0..Len(fbs) -> {"init_failed", "probe_failed", "ok"}] :
            /\ pr[0] \in ProbeOutcomes(providers[role])
            /\ \A i \in 1..Len(fbs) : pr[i] \in ProbeOutcomes(fbs[i])}

ManagerIdle == manager_result.kind # "switching"

\* manager.get_provider(model_type) for a key the registry does not hold
get_provider_missing(role) ==
    /\ ManagerIdle
    /\ manager_calls < MaxManagerCalls
    /\ role \notin DOMAIN providers
    /\ manager_result' = [kind |-> "raised", call |-> "get_provider", role |-> role]
    /\ manager_calls' = manager_calls + 1
    /\ UNCHANGED <<providers, fallback_providers>>
    /\ UNCHANGED <<enable_cache, client, response, vars, cvars, tvars, rvars>>

\* manager.get_provider(model_type) for a registered role
get_provider(role, probe) ==
    LET fbs == fallbacks_of(fallback_providers, role)
        slot == IF is_available(probe[0]) THEN 0 ELSE first_available(fbs, probe)
        tried == IF is_available(probe[0]) THEN 0
                 ELSE IF slot = 0 THEN Len(fbs) ELSE slot
        active == probed(providers[role], probe[0])
        after == [i \in 1..Len(fbs) |->
                    IF i <= tried THEN probed(fbs[i], probe[i]) ELSE fbs[i]]
    IN  /\ ManagerIdle
        /\ manager_calls < MaxManagerCalls
        /\ role \in DOMAIN providers
        /\ providers' = [providers EXCEPT ![role] = active]
        /\ fallback_providers' = IF role \in DOMAIN fallback_providers
                                 THEN [fallback_providers EXCEPT ![role] = after]
                                 ELSE fallback_providers
        /\ manager_result' = [kind |-> "returned", call |-> "get_provider",
                              role |-> role, slot |-> slot,
                              provider |-> IF slot = 0 THEN active ELSE after[slot]]
        /\ manager_calls' = manager_calls + 1
        /\ UNCHANGED <<enable_cache, client, response, vars, cvars, tvars, rvars>>

\* self._fallback_providers[model_type] = [] when the role has no list yet
with_list(fbs, role) ==
    IF role \in DOMAIN fbs THEN fbs
    ELSE [r \in DOMAIN fbs \cup {role} |-> IF r = role THEN <<>> ELSE fbs[r]]

add_fallback_anyway(fbs, role, p, inits) ==
    [with_list(fbs, role) EXCEPT ![role] = Append(@, p)]

\* the fallback dict after add_fallback_provider(model_type, provider)
add_fallback(fbs, role, p, inits) ==
    IF inits THEN [with_list(fbs, role) EXCEPT ![role] = Append(@, initialize(p))]
    ELSE with_list(fbs, role)

\* manager.add_fallback_provider(model_type, provider)
add_fallback_provider(role, cfg, inits) ==
    /\ ManagerIdle
    /\ manager_calls < MaxManagerCalls
    /\ fallback_providers' = add_fallback(fallback_providers, role,
                                          OpenAIProvider(cfg), inits)
    /\ manager_result' = [kind |-> IF inits THEN "returned" ELSE "raised",
                          call |-> "add_fallback_provider", role |-> role]
    /\ manager_calls' = manager_calls + 1
    /\ UNCHANGED providers
    /\ UNCHANGED <<enable_cache, client, response, vars, cvars, tvars, rvars>>

supported_any(cfg) == TRUE

\* switch_provider: if new_config.provider == ProviderType.OPENAI
supported(cfg) == cfg.provider = "openai"

\* manager.switch_provider(model_type, new_config) up to new_provider.initialize()
SwitchBegin(role, cfg, inits) ==
    /\ ManagerIdle
    /\ manager_calls < MaxManagerCalls
    /\ manager_result' =
          IF supported(cfg) /\ inits
          THEN [kind |-> "switching", call |-> "switch_provider", role |-> role,
                provider |-> initialize(OpenAIProvider(cfg))]
          ELSE [kind |-> "raised", call |-> "switch_provider", role |-> role]
    /\ manager_calls' = manager_calls + 1
    /\ UNCHANGED <<providers, fallback_providers>>
    /\ UNCHANGED <<enable_cache, client, response, vars, cvars, tvars, rvars>>

\* switch_provider: self._providers[model_type] = new_provider
SwitchReplace ==
    /\ manager_result.kind = "switching"
    /\ providers' = [providers EXCEPT ![manager_result.role] = manager_result.provider]
    /\ manager_result' = [manager_result EXCEPT !.kind = "returned"]
    /\ UNCHANGED <<fallback_providers, manager_calls>>
    /\ UNCHANGED <<enable_cache, client, response, vars, cvars, tvars, rvars>>

\* ModelManager(config): the three roles get their default provider, and an
\* initialize() that raises is only logged
InitManager ==
    /\ NoRun
    /\ NoWrapper
    /\ NoCache
    /\ enable_cache = FALSE
    /\ client = "none"
    /\ response = NoResponse
    /\ providers \in [Roles -> {OpenAIProvider(default_config),
                                 initialize(OpenAIProvider(default_config))}]
    /\ fallback_providers = EmptyDict
    /\ manager_result = NoCall
    /\ manager_calls = 0

GetProviderMissing == get_provider_missing("other")
GetProvider == \E role \in Roles : \E probe \in Probes(role) : get_provider(role, probe)
AddFallback ==
    \E role \in Roles, cfg \in FallbackConfigs, inits \in BOOLEAN :
        add_fallback_provider(role, cfg, inits)
SwitchBeginAny ==
    \E role \in Roles, cfg \in NewConfigs, inits \in BOOLEAN :
        SwitchBegin(role, cfg, inits)

NextManager ==
    \/ GetProvider
    \/ GetProviderMissing
    \/ AddFallback
    \/ SwitchBeginAny
    \/ SwitchReplace

SpecManager == InitManager /\ [][NextManager]_allvars

\* the wrapper has returned or raised
WrapperDone == wrapper_result # NoResult

\* the executions of func made so far, and those that raised
Attempts == Len(calls)
AllFailed == \A i \in 1..Len(calls) : calls[i].outcome = "raised"

\* C25: a call that fails on every attempt is attempted exactly
\* max_retries + 1 times before the wrapper returns the fallback or raises, and
\* never more; a call that first succeeds on attempt k <= max_retries + 1 is
\* attempted exactly k times and the wrapper returns its result
C25_Attempts ==
    /\ Attempts <= max_retries + 1
    /\ ~WrapperDone => (AllFailed /\ Attempts <= max_retries)
    /\ (WrapperDone /\ AllFailed) => Attempts = max_retries + 1
    /\ (WrapperDone /\ ~AllFailed) =>
          /\ calls[Attempts].outcome = "returned"
          /\ \A i \in 1..(Attempts - 1) : calls[i].outcome = "raised"
          /\ wrapper_result = [kind |-> "returned", value |-> FuncResult(node)]

\* with max_retries = 3, func raised three times and returned on the fourth
\* attempt
C25_Witness ==
    /\ max_retries = 3
    /\ WrapperDone
    /\ Attempts = 4
    /\ calls[4].outcome = "returned"
    /\ wrapper_result.kind = "returned"

\* the delay the claim C27 states before the n-th retry
StatedDelay(n) ==
    IF exponential_backoff THEN retry_delay * (2 ^ (n - 1)) ELSE retry_delay

\* C27: no delay precedes the first attempt; the n-th retry is preceded by one
\* delay, of retry_delay * 2^(n-1) with exponential_backoff and of retry_delay
\* without; no delay follows the final failed attempt
C27_Delays ==
    /\ Attempts = 0 => slept = <<>>
    /\ \A n \in 1..Len(slept) : slept[n] = StatedDelay(n)
    /\ ~WrapperDone => Len(slept) = Attempts
    /\ WrapperDone => Len(slept) = Attempts - 1

\* all four attempts failed under exponential backoff: three delays, none
\* after the last attempt
C27_Witness ==
    /\ exponential_backoff
    /\ retry_delay = 1
    /\ WrapperDone /\ AllFailed
    /\ Attempts = 4
    /\ slept = <<1, 2, 4>>

\* C28: when all max_retries + 1 attempts have failed, the wrapper with
\* fallback_enabled returns an AI message carrying fallback_message for
\* generation and rewrite, and needs_revision = false with score 0.5 for
\* critique, and raises nothing; with fallback disabled it raises the exception
\* of the last attempt
C28_AfterAllFailed ==
    (WrapperDone /\ AllFailed) =>
        IF fallback_enabled
        THEN /\ wrapper_result.kind = "returned"
             /\ node \in {"tweet_generation", "tweet_rewrite"} =>
                   wrapper_result.value = [messages |-> <<AIMessage(fallback_message)>>]
             /\ node = "tweet_critique" =>
                   /\ wrapper_result.value.needs_revision = FALSE
                   /\ wrapper_result.value.score = FALLBACK_SCORE
        ELSE /\ wrapper_result.kind = "raised"
             /\ wrapper_result.value = calls[Attempts].error

\* with fallback disabled the attempts raised different exceptions and the
\* wrapper raised the last one
C28_Witness ==
    /\ ~fallback_enabled
    /\ WrapperDone /\ AllFailed
    /\ Attempts >= 2
    /\ calls[1].error # calls[Attempts].error
    /\ wrapper_result = [kind |-> "raised", value |-> calls[Attempts].error]

\* C26 (as stated): the remote critique call is covered by the retry layer: the
\* neutral critique result for a remote call that fails is produced only once
\* the call has been attempted max_retries + 1 times
C26_CritiqueCallRetried ==
    [][CritiqueUnavailable => attempt + 1 = max_retries + 1]_vars

\* the remote critique call failed once, on the first attempt of a wrapper that
\* allows a retry, and the run has the neutral critique result
C26_GivenUpAtOnce ==
    /\ AfterCritique /\ LastStep.outcome = "fallback"
    /\ max_retries >= 1
    /\ state["score"] = FALLBACK_SCORE /\ ~state["needs_revision"]
    /\ validate_agent_state(state)

\* the cache of a caching provider holds an unexpired entry for request r
HoldsUnexpired(r) ==
    /\ enable_cache
    /\ KeyOf(r) \in DOMAIN cache
    /\ ~is_expired(cache[KeyOf(r)], ttl_seconds, now)

\* what invoke does for request r according to the claim: the unexpired
\* entry's content comes back with response_time 0 and no live call; the
\* result of a successful live call is the entry stored under the request's
\* key, unexpired at the instant invoke returns
ServedOrStored(r) ==
    /\ HoldsUnexpired(r) =>
          response' = ModelResponse(cache[KeyOf(r)].content, 0, FALSE)
    /\ (enable_cache /\ response'.kind = "returned" /\ response'.live) =>
          /\ KeyOf(r) \in DOMAIN cache'
          /\ cache'[KeyOf(r)].content = response'.content
          /\ ~is_expired(cache'[KeyOf(r)], ttl_seconds', now')

\* C29: when the cache holds an unexpired entry for a request, invoke returns
\* that entry's content with response_time 0 and makes no live call; after a
\* successful live call with caching enabled the result is stored, so the
\* next identical request before expiry or eviction is served the same way
C29_ServedFromCache ==
    [][\A r \in Requests, inits \in BOOLEAN, took \in 0..1, succeeds \in BOOLEAN :
            invoke(r[1], r[2], inits, took, succeeds) => ServedOrStored(r)]_allvars

\* the same for every invoke that gets past the initialization of the client
C29_ServedOnceInitialized ==
    [][\A r \in Requests, inits \in BOOLEAN, took \in 0..1, succeeds \in BOOLEAN :
            (invoke(r[1], r[2], inits, took, succeeds) /\ ~initialize_raises(client, inits))
                => ServedOrStored(r)]_allvars

\* a live call stored its result and a later request was served from it
C29_StoredThenServed ==
    /\ enable_cache
    /\ response.kind = "returned" /\ ~response.live
    /\ hits = 1 /\ misses = 1

\* a provider without a client holds an unexpired entry
C29_NoClientButCached ==
    client = "none" /\ \E r \in Requests : HoldsUnexpired(r)

\* the step just taken is a critique step that ended in the neutral fallback
CritiqueFellBack ==
    /\ Len(executed) > 0
    /\ executed[Len(executed)] = [node |-> "tweet_critique", outcome |-> "fallback"]

\* C30: a critique step that ends in the neutral fallback result (score 0.5,
\* needs_revision false) sends the run to DONE, reported as "accepted",
\* whatever the iteration count, although 0.5 is below the quality threshold
C30_FallbackAccepts ==
    /\ FALLBACK_SCORE < QUALITY_SCORE_THRESHOLD
    /\ CritiqueFellBack =>
          /\ state["score"] = FALLBACK_SCORE
          /\ state["needs_revision"] = FALSE
          /\ Done
          /\ stop_reason = "accepted"

\* the neutral fallback ended a run whose counter was still below the cap,
\* where a flagged critique would have gone on to a rewrite
C30_Witness ==
    /\ CritiqueFellBack
    /\ Done /\ stop_reason = "accepted"
    /\ Has(state, "iter") /\ state["iter"] < Cap

\* the neutral fallback ended a run whose counter had reached the cap
C30_AtTheCap ==
    /\ CritiqueFellBack
    /\ Done /\ stop_reason = "accepted"
    /\ Has(state, "iter") /\ state["iter"] >= Cap

\* C31: a validation failure inside a step (an agent state rejected by
\* validate_agent_state, or a critique reply that does not parse) never leaves
\* the run as a raised error, with fallback synthesis enabled or disabled
C31_ValidationNeverRaises ==
    node = "RAISED" => validate_agent_state(state)

\* a critique reply that does not parse is recovered inside the node, with
\* fallback synthesis enabled or disabled
C31_MalformedReplyRecovered ==
    [][CritiqueUnavailable => (node' # "RAISED" /\ reported'.kind = "fallback")]_vars

\* the run raised: graph.invoke did not return
Aborted == node = "RAISED"

\* the steps that ended in the wrapper's raise
RaisedSteps == {i \in 1..Len(executed) : executed[i].outcome = "raised"}

\* generation failed on all its attempts and no fallback was synthesised
GenerationGaveUp ==
    /\ ~fallback_enabled
    /\ Len(executed) > 0
    /\ executed[1] = [node |-> "tweet_generation", outcome |-> "raised"]

\* C32: a run ends in one of two ways, never both: it returns a result with
\* a final text and a stop reason, or it raises a single error after which
\* nothing executes; with fallback synthesis disabled, a generation that
\* fails on all attempts raises and no critique or rewrite step follows
C32_TwoEndings ==
    /\ [](Done => /\ final_tweet # ""
                  /\ stop_reason \in {"accepted", "max_iters"}
                  /\ RaisedSteps = {})
    /\ [](Aborted <=> RaisedSteps # {})
    /\ [](Aborted => RaisedSteps = {Len(executed)})
    /\ [](GenerationGaveUp => (Aborted /\ Len(executed) = 1))
    /\ [][~Aborted /\ ~Done]_vars

\* both endings happen: a returned run (C32_Returned) and a run whose
\* generation raised with fallback synthesis disabled
C32_Witness ==
    /\ Aborted
    /\ GenerationGaveUp
    /\ max_retries > 0

C32_Returned ==
    /\ Done
    /\ stop_reason = "max_iters"
    /\ final_tweet # ""

\* what the claim says get_provider returns for a registered role, given the
\* outcome of each liveness probe: the place in the registry (0 for the
\* active provider, i for the i-th registered fallback) and the provider there
StatedProvider(role, probe) ==
    LET fbs == fallbacks_of(fallback_providers, role)
        live == {i \in 1..Len(fbs) : probe[i] = "ok"}
    IN  IF probe[0] = "ok" \/ live = {}
        THEN [slot |-> 0, config |-> providers[role].config]
        ELSE LET i == CHOOSE i \in live : \A j \in 1..(i - 1) : j \notin live
             IN  [slot |-> i, config |-> fbs[i].config]

\* C33: get_provider(role) for a registered role returns the active provider
\* when its probe succeeds, otherwise the first fallback in registration
\* order whose probe succeeds, otherwise the unavailable active provider; it
\* never raises
C33_GetProvider ==
    [][\A role \in Roles : \A probe \in Probes(role) :
          get_provider(role, probe) =>
              /\ manager_result'.kind = "returned"
              /\ manager_result'.slot = StatedProvider(role, probe).slot
              /\ manager_result'.provider.config = StatedProvider(role, probe).config]_allvars

\* get_provider passed over an unavailable active provider and an unavailable
\* first fallback and returned the second fallback
C33_Witness ==
    /\ manager_result.kind = "returned"
    /\ manager_result.call = "get_provider"
    /\ manager_result.slot = 2

\* get_provider returned the active provider although no probe succeeded
C33_UnavailableActive ==
    /\ manager_result.kind = "returned"
    /\ manager_result.call = "get_provider"
    /\ manager_result.slot = 0
    /\ manager_result.provider.client = "none"
    /\ fallbacks_of(fallback_providers, manager_result.role) # <<>>

\* the registry as its readers see it: the active provider of every role and
\* the fallback providers of every role, in order
Registry(ps, fbs) ==
    [active |-> ps, fallbacks |-> [r \in Roles |-> fallbacks_of(fbs, r)]]

\* a switch_provider or add_fallback_provider call ended in this step, raising
CallRaised ==
    /\ manager_calls' = manager_calls + 1
    /\ manager_result'.kind = "raised"
    /\ manager_result'.call \in {"switch_provider", "add_fallback_provider"}

\* C34: every role always has exactly one active provider, also while a
\* switch is in progress; a switch_provider or add_fallback_provider call
\* that raises leaves the active providers and the fallback lists as they
\* were; a successful switch replaces the role's active provider in one step
C34_RegistryKept ==
    /\ [](DOMAIN providers = Roles)
    /\ [][CallRaised => Registry(providers', fallback_providers')
                          = Registry(providers, fallback_providers)]_allvars
    /\ [][\A role \in Roles, cfg \in FallbackConfigs :
            add_fallback_provider(role, cfg, FALSE) => CallRaised]_allvars
    /\ [][\A role \in Roles, cfg \in NewConfigs :
            (SwitchBegin(role, cfg, FALSE) => CallRaised)
            /\ (SwitchBegin(role, cfg, TRUE) => providers' = providers)]_allvars
    /\ [][SwitchReplace =>
            /\ providers'[manager_result.role] = manager_result.provider
            /\ \A r \in Roles \ {manager_result.role} : providers'[r] = providers[r]
            /\ fallback_providers' = fallback_providers]_allvars

\* a fallback whose initialization failed was refused for a role that has
\* fallbacks, and a switch whose initialization failed was refused after
\* another switch went through
C34_Witness ==
    /\ manager_result.kind = "raised"
    /\ manager_result.call = "add_fallback_provider"
    /\ Len(fallbacks_of(fallback_providers, manager_result.role)) = 1
    /\ \E r \in Roles : providers[r].config # default_config

\* a switch is in progress and the role still has its old provider
C34_WhileSwitching ==
    /\ manager_result.kind = "switching"
    /\ providers[manager_result.role].config = default_config

\* the first execution of func raised the ValueError of a configuration
\* failure (get_provider for a role the registry does not hold)
ConfigurationFailure ==
    /\ Len(calls) > 0
    /\ calls[1] = [outcome |-> "raised", error |-> "ValueError"]

C35_RegistryRaises ==
    /\ [][\A role \in Roles, cfg \in NewConfigs, inits \in BOOLEAN :
            (SwitchBegin(role, cfg, inits) /\ cfg.provider # "openai") =>
                /\ manager_result'.kind = "raised"
                /\ <<providers', fallback_providers'>> = <<providers, fallback_providers>>]_allvars
    /\ [][GetProviderMissing =>
                /\ manager_result'.kind = "raised"
                /\ <<providers', fallback_providers'>> = <<providers, fallback_providers>>]_allvars

\* the rewrite steps of the run so far
RewriteSteps == {i \in 1..Len(executed) : executed[i].node = "tweet_rewrite"}

\* C36: with fallback synthesis enabled the number of rewrite steps in a run
\* is bounded by max_iters under every pattern of remote-call failures, so
\* every run reaches DONE
C36_RewritesBounded ==
    fallback_enabled => Cardinality(RewriteSteps) <= Cap

\* as long as every rewrite step returns the model's text, the bound holds
C36_BoundedWhenRewriteReturns ==
    (\A i \in RewriteSteps : executed[i].outcome = "ok")
        => Cardinality(RewriteSteps) <= Cap

\* C37: whenever a run stops with reason "max_iters" (needs_revision true at
\* DONE), candidates is non-empty and best_tweet is defined and is the text of
\* a recorded candidate whose score equals best_score
C37_BestIsRecorded ==
    (Done /\ stop_reason = "max_iters") =>
        /\ state["needs_revision"] = TRUE
        /\ Candidates # <<>>
        /\ Has(state, "best_tweet") /\ Has(state, "best_score")
        /\ \E i \in DOMAIN Candidates :
              Candidates[i] = <<state["best_tweet"], state["best_score"]>>

\* a run stopped as max_iters with a best candidate that is not the last one
C37_Witness ==
    /\ Done /\ stop_reason = "max_iters"
    /\ Len(Candidates) >= 2
    /\ Candidates[Len(Candidates)] # <<state["best_tweet"], state["best_score"]>>

\* C38: after max_size was lowered below the number of entries, the next put
\* of a new key brings the number of entries down to at most the new max_size
C38_PutRestoresBound ==
    [][\A key \in Keys, content \in Contents :
          (/\ put(key, content)
           /\ key \notin DOMAIN cache
           /\ Cardinality(DOMAIN cache) > max_size)
              => Cardinality(DOMAIN cache') <= max_size]_allvars

\* the next put of a new key leaves the store as far above the lowered
\* max_size as it was: one entry evicted, one inserted
C38_PutKeepsExcess ==
    [][\A key \in Keys, content \in Contents :
          (/\ put(key, content)
           /\ key \notin DOMAIN cache
           /\ Cardinality(DOMAIN cache) > max_size)
              => Cardinality(DOMAIN cache') = Cardinality(DOMAIN cache)]_allvars

\* C39: an entry removed from memory (by LRU eviction, an expired lookup or
\* cleanup_expired) and not stored again is not returned by a later get, also
\* after the cache is constructed anew with persistence enabled: the new
\* cache holds no key that the old one did not hold when the process ended
C39_RemovedStaysRemoved ==
    [][Restart => DOMAIN cache' \subseteq DOMAIN cache]_allvars

\* the other form of C39: once the background writes have finished, every
\* durable record belongs to a key present in the in-memory store
C39_DurableIsStored ==
    (enable_persistence /\ pending = {}) => DOMAIN disk \subseteq DOMAIN cache

\* a newly constructed cache holds an entry that the old one had evicted
C39_EvictedIsBack ==
    /\ last_call = "__init__"
    /\ Size > max_size
    /\ max_size >= 1

\* C40: when two puts of the same key are made one after the other, then once
\* all background writes have finished the durable record for that key holds
\* the entry of the in-memory store, i.e. the entry of the later put
C40_LaterPutIsDurable ==
    pending = {} =>
        \A key \in DOMAIN cache \cap DOMAIN disk : disk[key] = cache[key]

\* the writes have finished and the durable record of a key is the entry of
\* the earlier of its two puts
C40_EarlierPutIsDurable ==
    /\ pending = {}
    /\ \E key \in DOMAIN cache \cap DOMAIN disk :
          disk[key].timestamp < cache[key].timestamp

====
